---- MODULE Spec2Model ----
(***************************************************************************)
(* A model of the flatten/unflatten codec of mdstools                      *)
(* (src/mdstools/converters/flatten.py, src/mdstools/converters/           *)
(* unflatten.py) and of its schema enricher                                *)
(* (src/mdstools/schema/enricher.py).                                      *)
(*                                                                         *)
(* Python strings are sequences of one-character strings, so that          *)
(* str(i), "."-joining, str.split("."), str.isdigit, str.lower and the     *)
(* lexicographic order used by sorted() are computed, not assumed.         *)
(* A Python value is a record tagged "scalar", "dict" or "list"; a dict    *)
(* keeps its items as a sequence (insertion order).                        *)
(***************************************************************************)
EXTENDS Integers, Sequences, FiniteSets, TLC

VARIABLES pc, data, rows, out, hrows, hout,
          schema_dir, schema_cache, calls, ret, path_stack_left

vars == <<pc, data, rows, out, hrows, hout,
          schema_dir, schema_cache, calls, ret, path_stack_left>>

\* the state of a SchemaEnricher and of the calls made on it
enricher == <<schema_dir, schema_cache, calls, ret, path_stack_left>>

(***************************************************************************)
(* Characters and strings                                                  *)
(***************************************************************************)

\* string.digits
Digits == <<"0", "1", "2", "3", "4", "5", "6", "7", "8", "9">>

\* string.ascii_lowercase
ascii_lowercase ==
    <<"a", "b", "c", "d", "e", "f", "g", "h", "i", "j", "k", "l", "m",
      "n", "o", "p", "q", "r", "s", "t", "u", "v", "w", "x", "y", "z">>

\* string.ascii_uppercase
ascii_uppercase ==
    <<"A", "B", "C", "D", "E", "F", "G", "H", "I", "J", "K", "L", "M",
      "N", "O", "P", "Q", "R", "S", "T", "U", "V", "W", "X", "Y", "Z">>

IndexOf(seq, c) == CHOOSE i \in 1..Len(seq) : seq[i] = c

InSeq(seq, c) == \E i \in 1..Len(seq) : seq[i] = c

\* ord(c) for the characters of the model's alphabet
Ord(c) ==
    IF InSeq(Digits, c) THEN 47 + IndexOf(Digits, c)
    ELSE IF InSeq(ascii_uppercase, c) THEN 64 + IndexOf(ascii_uppercase, c)
    ELSE IF InSeq(ascii_lowercase, c) THEN 96 + IndexOf(ascii_lowercase, c)
    ELSE IF c = "." THEN 46
    ELSE IF c = "<" THEN 60
    ELSE IF c = ">" THEN 62
    ELSE 32

\* str.lower of one character
LowerChar(c) ==
    IF InSeq(ascii_uppercase, c)
    THEN ascii_lowercase[IndexOf(ascii_uppercase, c)]
    ELSE c

\* str.lower
Lower(s) == [i \in 1..Len(s) |-> LowerChar(s[i])]

\* str.isdigit: non-empty and every character a digit
isdigit(s) == Len(s) >= 1 /\ \A i \in 1..Len(s) : InSeq(Digits, s[i])

\* str(i) for an integer i >= 0
RECURSIVE Str(_)
Str(i) ==
    IF i < 10 THEN <<Digits[i + 1]>>
    ELSE Str(i \div 10) \o <<Digits[(i % 10) + 1]>>

\* a < b in Python's order on str (lexicographic by code point)
RECURSIVE StrLess(_, _)
StrLess(a, b) ==
    IF b = <<>> THEN FALSE
    ELSE IF a = <<>> THEN TRUE
    ELSE IF Ord(Head(a)) < Ord(Head(b)) THEN TRUE
    ELSE IF Ord(Head(a)) > Ord(Head(b)) THEN FALSE
    ELSE StrLess(Tail(a), Tail(b))

\* s.split("."): the list of the parts of s between the dots
RECURSIVE SplitAcc(_, _, _)
SplitAcc(s, cur, acc) ==
    IF s = <<>> THEN Append(acc, cur)
    ELSE IF Head(s) = "." THEN SplitAcc(Tail(s), <<>>, Append(acc, cur))
    ELSE SplitAcc(Tail(s), Append(cur, Head(s)), acc)

Split(s) == SplitAcc(s, <<>>, <<>>)

\* ".".join(parts)
RECURSIVE Join(_)
Join(parts) ==
    IF parts = <<>> THEN <<>>
    ELSE IF Len(parts) = 1 THEN parts[1]
    ELSE parts[1] \o <<".">> \o Join(Tail(parts))

\* parts[:-1]
ButLast(seq) == SubSeq(seq, 1, Len(seq) - 1)

\* parts[-1]
Last(seq) == seq[Len(seq)]

(***************************************************************************)
(* Python values                                                           *)
(***************************************************************************)

Scalar(s) == [tag |-> "scalar", s |-> s]

Dict(items) == [tag |-> "dict", items |-> items]

List(items) == [tag |-> "list", items |-> items]

Item(k, v) == [key |-> k, val |-> v]

\* the sentinel "<nested>"
NESTED == <<"<", "n", "e", "s", "t", "e", "d", ">">>

\* d[k] = v on an insertion-ordered dict: an existing key keeps its place
DictSet(items, k, v) ==
    IF \E i \in 1..Len(items) : items[i].key = k
    THEN [i \in 1..Len(items) |->
            IF items[i].key = k THEN Item(k, v) ELSE items[i]]
    ELSE Append(items, Item(k, v))

(***************************************************************************)
(* flatten (src/mdstools/converters/flatten.py)                            *)
(*                                                                         *)
(* The list `rows` that the helpers append to is threaded through as       *)
(* acc.rows; acc.raised records that string.ascii_lowercase[j] raised      *)
(* IndexError, which ends the whole call.  An optional parent_key is       *)
(* <<>> for None and <<k>> for the string k.                               *)
(***************************************************************************)

NoKey == <<>>

\* the truth value of an optional string: None and "" are both false
Truthy(parent_key) == parent_key # NoKey /\ parent_key[1] # <<>>

EmptyAcc == [rows |-> <<>>, raised |-> FALSE]

AppendRow(acc, row) == [acc EXCEPT !.rows = Append(@, row)]

\* the suffix of the j-th (0-based) item of a list, line 144
item_marker(j) == <<ascii_lowercase[j + 1]>>

RECURSIVE _process_dict(_, _, _, _)
RECURSIVE _process_list(_, _, _, _)
RECURSIVE DictLoop(_, _, _, _)
RECURSIVE ListLoop(_, _, _, _)
RECURSIVE FieldLoop(_, _, _, _)

\* mutant of DictLoop: below the root a field takes the address of its dict
DictLoopNoOrdinal(d, prefix, i, acc) ==
    IF acc.raised \/ i > Len(d.items) THEN acc
    ELSE LET k == d.items[i].key
             v == d.items[i].val
             current_prefix == IF prefix # <<>> THEN prefix ELSE Str(i)
             acc1 ==
                 IF v.tag = "dict"
                 THEN _process_dict(v, current_prefix, <<k>>, acc)
                 ELSE IF v.tag = "list"
                 THEN _process_list(v, current_prefix, k, acc)
                 ELSE AppendRow(acc, <<current_prefix, k, v.s>>)
         IN  DictLoop(d, prefix, i + 1, acc1)

\* the loop of _process_dict over enumerate(d.items(), start=1), from i on
DictLoop(d, prefix, i, acc) ==
    IF acc.raised \/ i > Len(d.items) THEN acc
    ELSE LET k == d.items[i].key
             v == d.items[i].val
             current_prefix ==
                 IF prefix # <<>> THEN prefix \o <<".">> \o Str(i) ELSE Str(i)
             acc1 ==
                 IF v.tag = "dict"
                 THEN _process_dict(v, current_prefix, <<k>>, acc)
                 ELSE IF v.tag = "list"
                 THEN _process_list(v, current_prefix, k, acc)
                 ELSE AppendRow(acc, <<current_prefix, k, v.s>>)
         IN  DictLoop(d, prefix, i + 1, acc1)

_process_dict(d, prefix, parent_key, acc) ==
    LET acc0 == IF Truthy(parent_key)
                THEN AppendRow(acc, <<prefix, parent_key[1], NESTED>>)
                ELSE acc
    IN  DictLoop(d, prefix, 1, acc0)

\* the loop over the fields of a dict that is a list item, from k_idx on
FieldLoop(item, list_prefix, k_idx, acc) ==
    IF acc.raised \/ k_idx > Len(item.items) THEN acc
    ELSE LET field == item.items[k_idx].key
             val == item.items[k_idx].val
             field_prefix == list_prefix \o <<".">> \o Str(k_idx)
             acc1 ==
                 IF val.tag = "dict"
                 THEN _process_dict(val, field_prefix, <<field>>, acc)
                 ELSE IF val.tag = "list"
                 THEN _process_list(val, field_prefix, field, acc)
                 ELSE AppendRow(acc, <<field_prefix, field, val.s>>)
         IN  FieldLoop(item, list_prefix, k_idx + 1, acc1)

\* mutant of ListLoop: a dict item gets no header row of its own
ListLoopNoItemHeader(lst, prefix, j, acc) ==
    IF acc.raised \/ j >= Len(lst.items) THEN acc
    ELSE IF j >= Len(ascii_lowercase) THEN [acc EXCEPT !.raised = TRUE]
    ELSE LET item == lst.items[j + 1]
             list_prefix == prefix \o <<".">> \o item_marker(j)
             acc1 ==
                 IF item.tag = "dict"
                 THEN FieldLoop(item, list_prefix, 1, acc)
                 ELSE IF item.tag = "list"
                 THEN _process_list(item, list_prefix, <<>>, acc)
                 ELSE AppendRow(acc, <<list_prefix, <<>>, item.s>>)
         IN  ListLoop(lst, prefix, j + 1, acc1)

\* mutant of ListLoop: past "z" the markers start again at "a"
ListLoopWrapsAround(lst, prefix, j, acc) ==
    IF acc.raised \/ j >= Len(lst.items) THEN acc
    ELSE LET item == lst.items[j + 1]
             list_prefix ==
                 prefix \o <<".">> \o item_marker(j % Len(ascii_lowercase))
             acc1 ==
                 IF item.tag = "dict"
                 THEN FieldLoop(item, list_prefix, 1,
                                AppendRow(acc, <<list_prefix, <<>>, NESTED>>))
                 ELSE IF item.tag = "list"
                 THEN _process_list(item, list_prefix, <<>>, acc)
                 ELSE AppendRow(acc, <<list_prefix, <<>>, item.s>>)
         IN  ListLoop(lst, prefix, j + 1, acc1)

\* the loop of _process_list over enumerate(lst), from the 0-based j on
ListLoop(lst, prefix, j, acc) ==
    IF acc.raised \/ j >= Len(lst.items) THEN acc
    ELSE IF j >= Len(ascii_lowercase) THEN [acc EXCEPT !.raised = TRUE]
    ELSE LET item == lst.items[j + 1]
             letter == item_marker(j)
             list_prefix == prefix \o <<".">> \o letter
             acc1 ==
                 IF item.tag = "dict"
                 THEN FieldLoop(item, list_prefix, 1,
                                AppendRow(acc, <<list_prefix, <<>>, NESTED>>))
                 ELSE IF item.tag = "list"
                 THEN _process_list(item, list_prefix, <<>>, acc)
                 ELSE AppendRow(acc, <<list_prefix, <<>>, item.s>>)
         IN  ListLoop(lst, prefix, j + 1, acc1)

\* is_primitive_list, lines 7-40
is_primitive_list(lst) ==
    \A i \in 1..Len(lst.items) : lst.items[i].tag = "scalar"

\* mutant of _process_list: a list of scalars gets no header row
ProcessListBareScalars(lst, prefix, parent_key, acc) ==
    ListLoop(lst, prefix, 0,
             IF is_primitive_list(lst) THEN acc
             ELSE AppendRow(acc, <<prefix, parent_key, NESTED>>))

_process_list(lst, prefix, parent_key, acc) ==
    ListLoop(lst, prefix, 0, AppendRow(acc, <<prefix, parent_key, NESTED>>))

\* flatten(d) with the default prefix="" and parent_key=None
flatten(d) ==
    IF d.tag = "dict" THEN _process_dict(d, <<>>, NoKey, EmptyAcc)
    ELSE IF d.tag = "list" THEN _process_list(d, <<>>, <<>>, EmptyAcc)
    ELSE EmptyAcc

(***************************************************************************)
(* unflatten (src/mdstools/converters/unflatten.py)                        *)
(*                                                                         *)
(* The dict `tree` is a sequence of nodes [number, key, value] in          *)
(* insertion order; a node's "children" dict is the subsequence of the     *)
(* nodes whose parent number it is, in the order of the linking loop.      *)
(***************************************************************************)

kw_number == <<"n", "u", "m", "b", "e", "r">>

kw_key == <<"k", "e", "y">>

\* mutant of IsHeaderRow: the cells are compared without lower-casing
IsHeaderRowCaseSensitive(row) ==
    /\ Len(row) >= 2
    /\ \E i \in 1..Len(row) : row[i] = kw_number
    /\ \E i \in 1..Len(row) : row[i] = kw_key

\* the test of lines 92-94 on rows[0]
IsHeaderRow(row) ==
    /\ Len(row) >= 2
    /\ \E i \in 1..Len(row) : Lower(row[i]) = kw_number
    /\ \E i \in 1..Len(row) : Lower(row[i]) = kw_key

\* rows after the header skip of lines 91-95
StripHeader(rs) ==
    IF rs # <<>> /\ IsHeaderRow(rs[1]) THEN Tail(rs) ELSE rs

Node(number, key, value) == [number |-> number, key |-> key, value |-> value]

\* tree[number] = {...}: a number seen before keeps its place in the dict
TreeSet(tree, node) ==
    IF \E i \in 1..Len(tree) : tree[i].number = node.number
    THEN [i \in 1..Len(tree) |->
            IF tree[i].number = node.number THEN node ELSE tree[i]]
    ELSE Append(tree, node)

\* the loop of lines 104-107
RECURSIVE BuildTree(_, _)
BuildTree(rs, tree) ==
    IF rs = <<>> THEN tree
    ELSE BuildTree(Tail(rs),
                   TreeSet(tree, Node(rs[1][1], rs[1][2], rs[1][3])))

InTree(tree, number) == \E i \in 1..Len(tree) : tree[i].number = number

TreeAt(tree, number) ==
    tree[CHOOSE i \in 1..Len(tree) : tree[i].number = number]

\* ".".join(parts[:-1])
ParentNumber(number) == Join(ButLast(Split(number)))

\* tree[number]["children"].keys() after the linking loop of lines 110-115
ChildrenOf(tree, number) ==
    LET linked(n) == /\ Len(Split(n.number)) > 1
                     /\ ParentNumber(n.number) = number
        kept == SelectSeq(tree, linked)
    IN  [i \in 1..Len(kept) |-> kept[i].number]

\* mutant of Roots: only the one-segment numbers are roots
RootsTopLevelOnly(tree) ==
    LET isRoot(n) == Len(Split(n.number)) = 1
        kept == SelectSeq(tree, isRoot)
    IN  [i \in 1..Len(kept) |-> kept[i].number]

\* roots, lines 118-122
Roots(tree) ==
    LET isRoot(n) == \/ Len(Split(n.number)) = 1
                     \/ ~InTree(tree, ParentNumber(n.number))
        kept == SelectSeq(tree, isRoot)
    IN  [i \in 1..Len(kept) |-> kept[i].number]

is_list_index(s) ==
    Len(s) >= 2 /\ s[1] = "i" /\ isdigit(SubSeq(s, 2, Len(s)))

\* the sort key of line 140: x.split(".")[-1]
Suffix(number) == Last(Split(number))

\* sorted(): a stable insertion sort by the sort key
RECURSIVE InsertSorted(_, _)
InsertSorted(sorted, x) ==
    IF sorted = <<>> THEN <<x>>
    ELSE IF StrLess(Suffix(x), Suffix(Head(sorted)))
    THEN <<x>> \o sorted
    ELSE <<Head(sorted)>> \o InsertSorted(Tail(sorted), x)

RECURSIVE SortBySuffix(_, _)
SortBySuffix(numbers, sorted) ==
    IF numbers = <<>> THEN sorted
    ELSE SortBySuffix(Tail(numbers), InsertSorted(sorted, Head(numbers)))

child_numbers(tree, number) == SortBySuffix(ChildrenOf(tree, number), <<>>)

RECURSIVE build_structure(_, _)
RECURSIVE BuildListLoop(_, _, _)
RECURSIVE BuildDictLoop(_, _, _)

\* lines 145-149
BuildListLoop(tree, numbers, result_list) ==
    IF numbers = <<>> THEN List(result_list)
    ELSE BuildListLoop(tree, Tail(numbers),
                       Append(result_list, build_structure(tree, Head(numbers))))

\* lines 152-165
BuildDictLoop(tree, numbers, result_dict) ==
    IF numbers = <<>> THEN result_dict
    ELSE LET child_key == TreeAt(tree, Head(numbers)).key
             child_result == build_structure(tree, Head(numbers))
             next == IF child_key # <<>>
                     THEN Dict(DictSet(result_dict.items, child_key, child_result))
                     ELSE IF child_result.tag = "dict" THEN child_result
                     ELSE result_dict
         IN  BuildDictLoop(tree, Tail(numbers), next)

build_structure(tree, number) ==
    LET node == TreeAt(tree, number)
        cn == child_numbers(tree, number)
    IN  IF cn = <<>> THEN Scalar(node.value)
        ELSE IF \A i \in 1..Len(cn) : is_list_index(Suffix(cn[i]))
        THEN BuildListLoop(tree, cn, <<>>)
        ELSE BuildDictLoop(tree, cn, Dict(<<>>))

\* lines 168-172
RECURSIVE RootLoop(_, _, _)
RootLoop(tree, roots, result) ==
    IF roots = <<>> THEN result
    ELSE LET root_key == TreeAt(tree, Head(roots)).key
         IN  RootLoop(tree, Tail(roots),
                      IF root_key # <<>>
                      THEN Dict(DictSet(result.items, root_key,
                                        build_structure(tree, Head(roots))))
                      ELSE result)

\* the outcome of a call that raised
RAISED == [tag |-> "raised"]

\* mutant of unflatten: rows that are not triples are skipped
unflattenSkipsMalformed(rs) ==
    LET body == SelectSeq(StripHeader(rs), LAMBDA row : Len(row) = 3)
        tree == BuildTree(body, <<>>)
    IN  IF body = <<>> THEN Dict(<<>>)
        ELSE RootLoop(tree, Roots(tree), Dict(<<>>))

unflatten(rs) ==
    LET body == StripHeader(rs)
        tree == BuildTree(body, <<>>)
    IN  IF rs = <<>> \/ body = <<>> THEN Dict(<<>>)
        ELSE IF \E i \in 1..Len(body) : Len(body[i]) # 3 THEN RAISED
        ELSE RootLoop(tree, Roots(tree), Dict(<<>>))

(***************************************************************************)
(* Inputs                                                                  *)
(***************************************************************************)

\* longest list built on the way down a tree
MaxList == 2

\* nesting depth of the trees below the root dict
TreeDepth == 3

\* number of keys of the wide dict
Wide == 10

ka == <<"a">>

kb == <<"b">>

kp == <<"p">>

kEmpty == <<>>

sx == Scalar(<<"x">>)

sy == Scalar(<<"y">>)

Scalars == {sx, sy}

\* what fills the places of a list before its last element
Fillers == {sx, Dict(<<Item(kb, sy)>>)}

\* dicts with a value of V: {}, {k: v}, {"": v}, {b: x, a: v}
DictsOf(V) ==
    {Dict(<<>>)}
    \cup {Dict(<<Item(k, v)>>) : k \in {ka, kEmpty}, v \in V}
    \cup {Dict(<<Item(kb, sx), Item(ka, v)>>) : v \in V}

\* lists of at most MaxList elements that end with a value of V
ListsOf(V) ==
    {List(<<>>)}
    \cup {List([i \in 1..(m + 1) |-> IF i <= m THEN f ELSE v]) :
            m \in 0..(MaxList - 1), f \in Fillers, v \in V}

RECURSIVE Level(_)
Level(n) ==
    IF n = 0 THEN Scalars
    ELSE LET below == Level(n - 1)
         IN  Scalars \cup DictsOf(below) \cup ListsOf(below)

\* {p: {k1: "1", ..., kn: "n"}}
WideTree(n) ==
    Dict(<<Item(kp, Dict([i \in 1..n |->
                            Item(<<"k">> \o Str(i), Scalar(Str(i)))]))>>)

\* {p: [x, x, ...]} with n elements
LongTree(n) == Dict(<<Item(kp, List([i \in 1..n |-> sx]))>>)

\* trees whose keys and values are the words of a header row: first as key
\* and value of one field, in other letter cases, one level down, and in a
\* field that is not the first
HeaderWordTrees ==
    {Dict(<<Item(kw_number, Scalar(kw_key))>>),
     Dict(<<Item(<<"K", "e", "y">>, Scalar(<<"N", "U", "M", "B", "E", "R">>)),
            Item(ka, sx)>>),
     Dict(<<Item(kw_number, Dict(<<Item(kw_key, sx)>>))>>),
     Dict(<<Item(ka, sx), Item(kw_number, Scalar(kw_key))>>)}

Trees ==
    DictsOf(Level(TreeDepth))
    \cup {WideTree(Wide), LongTree(Len(ascii_lowercase)),
          LongTree(Len(ascii_lowercase) + 1)}
    \cup HeaderWordTrees

(***************************************************************************)
(* The codec as a state machine: a tree is flattened, the rows are         *)
(* unflattened.                                                            *)
(***************************************************************************)

NONE == [tag |-> "none"]

\* no SchemaEnricher has been constructed
NoEnricher ==
    /\ schema_dir = <<>>
    /\ schema_cache = Dict(<<>>)
    /\ calls = <<>>
    /\ ret = NONE
    /\ path_stack_left = <<>>

Init ==
    /\ pc = "data"
    /\ data \in Trees
    /\ rows = <<>>
    /\ out = NONE
    /\ hrows = <<>>
    /\ hout = NONE
    /\ NoEnricher

\* rows = flatten(data)
Flatten ==
    /\ pc = "data"
    /\ LET r == flatten(data)
       IN  /\ rows' = IF r.raised THEN <<>> ELSE r.rows
           /\ pc' = IF r.raised THEN "raised" ELSE "rows"
    /\ UNCHANGED <<data, out, hrows, hout>>
    /\ UNCHANGED enricher

\* out = unflatten(rows)
Unflatten ==
    /\ pc = "rows"
    /\ out' = unflatten(rows)
    /\ pc' = "out"
    /\ UNCHANGED <<data, rows, hrows, hout>>
    /\ UNCHANGED enricher

Next == Flatten \/ Unflatten

Spec == Init /\ [][Next]_vars

(***************************************************************************)
(* Positions of a tree.  A path is the sequence of the 1-based positions   *)
(* taken from the root; its address is the dot-joined sequence of the      *)
(* ordinal of each dict position and the item marker of each list          *)
(* position.                                                               *)
(***************************************************************************)

Child(v, i) == IF v.tag = "dict" THEN v.items[i].val ELSE v.items[i]

RECURSIVE At(_, _)
At(v, p) == IF p = <<>> THEN v ELSE At(Child(v, p[1]), Tail(p))

RECURSIVE Paths(_)
Paths(v) ==
    IF v.tag = "scalar" THEN {<<>>}
    ELSE {<<>>} \cup UNION {{<<i>> \o q : q \in Paths(Child(v, i))} :
                              i \in 1..Len(v.items)}

RECURSIVE AddrSegs(_, _)
AddrSegs(v, p) ==
    IF p = <<>> THEN <<>>
    ELSE <<IF v.tag = "dict" THEN Str(p[1]) ELSE item_marker(p[1] - 1)>>
         \o AddrSegs(Child(v, p[1]), Tail(p))

Address(v, p) == Join(AddrSegs(v, p))

ParentOf(v, p) == At(v, ButLast(p))

\* the key under which the node at the non-empty path p is held ("" in a list)
KeyAt(v, p) ==
    IF ParentOf(v, p).tag = "dict" THEN ParentOf(v, p).items[Last(p)].key
    ELSE <<>>

NodesOf(v, tag) == {p \in Paths(v) : At(v, p).tag = tag}

\* Python's == on values: dicts compare as mappings, lists as sequences
RECURSIVE PyEq(_, _)
PyEq(a, b) ==
    IF a.tag # b.tag THEN FALSE
    ELSE IF a.tag = "scalar" THEN a.s = b.s
    ELSE IF a.tag = "list"
    THEN /\ Len(a.items) = Len(b.items)
         /\ \A i \in 1..Len(a.items) : PyEq(a.items[i], b.items[i])
    ELSE IF a.tag = "dict"
    THEN /\ Len(a.items) = Len(b.items)
         /\ \A i \in 1..Len(a.items) : \E j \in 1..Len(b.items) :
               /\ a.items[i].key = b.items[j].key
               /\ PyEq(a.items[i].val, b.items[j].val)
    ELSE FALSE

HasKey(d, k) == \E i \in 1..Len(d.items) : d.items[i].key = k

Lookup(d, k) == d.items[CHOOSE i \in 1..Len(d.items) : d.items[i].key = k].val

KeysOf(d) == [i \in 1..Len(d.items) |-> d.items[i].key]

Flattened == pc \in {"rows", "out"}

(***************************************************************************)
(* Claims about flatten and the round trip (specification Spec)            *)
(***************************************************************************)

\* keys are non-empty strings and lists hold only scalars or dicts
RECURSIVE RoundTripDomain(_)
RoundTripDomain(v) ==
    IF v.tag = "scalar" THEN TRUE
    ELSE IF v.tag = "dict"
    THEN \A i \in 1..Len(v.items) :
            v.items[i].key # <<>> /\ RoundTripDomain(v.items[i].val)
    ELSE \A i \in 1..Len(v.items) :
            v.items[i].tag # "list" /\ RoundTripDomain(v.items[i])

\* C1: round-trip law: for a tree whose root is a dict with non-empty keys
\* and whose lists hold only scalars or dicts, unflatten(flatten(v)) == v.
C1_RoundTrip ==
    (pc = "out" /\ RoundTripDomain(data)) => PyEq(out, data)

\* C2: one item-marker encoding: the last address segment of every row that
\* flatten emits for a list element satisfies unflatten's is_list_index, and
\* the ordinal segment of a row emitted for a dict field does not.
C2_OneMarkerEncoding ==
    Flattened =>
        \A p \in Paths(data) \ {<<>>} :
            (\E r \in 1..Len(rows) : rows[r][1] = Address(data, p)) =>
                (is_list_index(Suffix(Address(data, p)))
                    <=> ParentOf(data, p).tag = "list")

LeafScalars(v) == Cardinality(NodesOf(v, "scalar"))

AllLists(v) == Cardinality(NodesOf(v, "list"))

\* dicts held under a (non-empty) key of a dict
KeyedObjects(v) ==
    Cardinality({p \in NodesOf(v, "dict") :
                    p # <<>> /\ ParentOf(v, p).tag = "dict"
                             /\ KeyAt(v, p) # <<>>})

\* dicts held under a non-empty key of a dict, and dicts that are list items
HeadedObjects(v) ==
    Cardinality({p \in NodesOf(v, "dict") :
                    p # <<>> /\ (ParentOf(v, p).tag = "list"
                                 \/ KeyAt(v, p) # <<>>)})

CommonKeys(d, o) == SelectSeq(KeysOf(d), LAMBDA k : HasKey(o, k))

\* every dict of v that has a counterpart in o (reached by the same keys and
\* list positions) lists the keys they share in v's order
RECURSIVE SameKeyOrder(_, _)
SameKeyOrder(v, o) ==
    IF v.tag = "dict" /\ o.tag = "dict"
    THEN /\ CommonKeys(o, v) = CommonKeys(v, o)
         /\ \A i \in 1..Len(v.items) :
               HasKey(o, v.items[i].key) =>
                   SameKeyOrder(v.items[i].val, Lookup(o, v.items[i].key))
    ELSE IF v.tag = "list" /\ o.tag = "list"
    THEN \A i \in 1..Len(v.items) :
            i <= Len(o.items) => SameKeyOrder(v.items[i], o.items[i])
    ELSE TRUE

\* C4: order preservation: every dict rebuilt by unflatten(flatten(v)) has
\* its keys in the insertion order of the original dict, whatever the number
\* of keys.
C4_OrderPreserved ==
    pc = "out" => SameKeyOrder(data, out)

IsPrefix(a, b) == Len(a) <= Len(b) /\ SubSeq(b, 1, Len(a)) = a

RowsAt(number) == {r \in 1..Len(rows) : rows[r][1] = number}

\* the row `row` is emitted, and the rows of the addresses below its own (if
\* any) start right after it
HeaderThenChildren(row) ==
    \E r \in 1..Len(rows) :
        /\ rows[r] = row
        /\ \A r2 \in 1..Len(rows) :
              IsPrefix(row[1] \o <<".">>, rows[r2][1]) => r2 > r
        /\ (\E r2 \in 1..Len(rows) : IsPrefix(row[1] \o <<".">>, rows[r2][1]))
              => (r < Len(rows) /\ IsPrefix(row[1] \o <<".">>, rows[r + 1][1]))

\* C6: flatten of a dict: the root emits no row for itself; the n-th pair of
\* the root has address "n"; a dict held under key k at address A emits the
\* row (A, k, "<nested>") right before the rows of its children, which have
\* the addresses "A.m"; a scalar leaf emits exactly the one row
\* (address, key, scalar).
C6_FlattenObject ==
    Flattened =>
        /\ \A r \in 1..Len(rows) : rows[r][1] # <<>>
        /\ \A p \in NodesOf(data, "dict") :
              (p # <<>> /\ ParentOf(data, p).tag = "dict") =>
                  HeaderThenChildren(
                      <<Address(data, p), KeyAt(data, p), NESTED>>)
        /\ \A p \in NodesOf(data, "scalar") :
              /\ Cardinality(RowsAt(Address(data, p))) = 1
              /\ \A r \in RowsAt(Address(data, p)) :
                    rows[r] = <<Address(data, p), KeyAt(data, p),
                                At(data, p).s>>

\* the rows of the j-th item (at address Aj) of a list whose header is row r
ItemRows(item, Aj, r) ==
    IF item.tag = "scalar"
    THEN \E r2 \in (r + 1)..Len(rows) : rows[r2] = <<Aj, <<>>, item.s>>
    ELSE IF item.tag = "list"
    THEN \E r2 \in (r + 1)..Len(rows) : rows[r2] = <<Aj, <<>>, NESTED>>
    ELSE \E r2 \in (r + 1)..Len(rows) :
            /\ rows[r2] = <<Aj, <<>>, NESTED>>
            /\ \A m \in 1..Len(item.items) :
                  LET Am == Aj \o <<".">> \o Str(m)
                      f == item.items[m]
                  IN  /\ f.val.tag = "scalar" =>
                            \E r3 \in (r2 + 1)..Len(rows) :
                                rows[r3] = <<Am, f.key, f.val.s>>
                      /\ (f.val.tag = "list"
                          \/ (f.val.tag = "dict" /\ f.key # <<>>)) =>
                            \E r3 \in (r2 + 1)..Len(rows) :
                                rows[r3] = <<Am, f.key, NESTED>>
                      /\ \A r3 \in 1..Len(rows) :
                            IsPrefix(Am \o <<".">>, rows[r3][1]) => r3 > r2

MaxRows == 4

\* most data rows of a row list that starts with a header row
MaxHeadedRows == 1

AddrPool ==
    << <<"1">>,
       <<"1", ".", "1">>,
       <<"1", ".", "1", ".", "1">>,
       <<"1", ".", "i", "1">>,
       <<"1", ".", "i", "1", ".", "1">>,
       <<"1", ".", "i", "2">>,
       <<"3", ".", "1">> >>

KeyPool == {kEmpty, ka, kb}

ValueOf(number) == <<"v">> \o number

HeaderLower == << kw_number, kw_key, <<"v", "a", "l", "u", "e">> >>

HeaderTitle ==
    << <<"N", "u", "m", "b", "e", "r">>, <<"K", "e", "y">>,
       <<"V", "a", "l", "u", "e">>, <<"E", "x", "a", "m", "p", "l", "e">>,
       <<"D", "e", "s", "c", "r", "i", "p", "t", "i", "o", "n">> >>

HeaderShort == << <<"K", "E", "Y">>, <<"N", "U", "M", "B", "E", "R">> >>

Headers == {HeaderLower, HeaderTitle, HeaderShort}

\* the members of a set of pool positions, ascending
RECURSIVE Ascending(_)
Ascending(S) ==
    IF S = {} THEN <<>>
    ELSE LET m == CHOOSE x \in S : \A y \in S : x <= y
         IN  <<m>> \o Ascending(S \ {m})

Reverse(seq) == [i \in 1..Len(seq) |-> seq[Len(seq) + 1 - i]]

Bodies(n) ==
    UNION {UNION {
        LET pos == Ascending(S)
            fwd == [i \in 1..Len(pos) |->
                      <<AddrPool[pos[i]], keys[pos[i]],
                        ValueOf(AddrPool[pos[i]])>>]
        IN  {fwd, Reverse(fwd)} :
        keys \in [S -> KeyPool]} :
        S \in {T \in SUBSET (1..Len(AddrPool)) : Cardinality(T) <= n}}

\* most items of the lists of ItemLists
MaxItems == 11

\* the rows of {'a': [v1, ..., vn]} with the item markers i1 to in
ItemRowsOf(n) ==
    << <<Str(1), ka, NESTED>> >>
    \o [j \in 1..n |-> <<Str(1) \o <<".", "i">> \o Str(j), kEmpty,
                          ValueOf(Str(j))>>]

\* lists of two, of nine and of ten or more items, in the order of the items
\* and in the opposite order
ItemLists ==
    UNION {{ItemRowsOf(n), Reverse(ItemRowsOf(n))} :
             n \in {2, 9} \cup 10..MaxItems}

RowLists ==
    Bodies(MaxRows)
    \cup {<<h>> \o b : h \in {HeaderLower}, b \in Bodies(MaxHeadedRows)}
    \cup ItemLists

InitRows ==
    /\ pc = "rows"
    /\ data = NONE
    /\ rows \in RowLists
    /\ out = NONE
    /\ hrows = <<>>
    /\ hout = NONE
    /\ NoEnricher

\* the same rows under a textual header row
AddHeader ==
    /\ pc = "out"
    /\ \E h \in Headers : hrows' = <<h>> \o rows
    /\ pc' = "hrows"
    /\ UNCHANGED <<data, rows, out, hout>>
    /\ UNCHANGED enricher

\* hout = unflatten(hrows)
UnflattenHeader ==
    /\ pc = "hrows"
    /\ hout' = unflatten(hrows)
    /\ pc' = "done"
    /\ UNCHANGED <<data, rows, out, hrows>>
    /\ UNCHANGED enricher

NextRows == Unflatten \/ AddHeader \/ UnflattenHeader

SpecRows == InitRows /\ [][NextRows]_vars

(***************************************************************************)
(* Claims about unflatten (specification SpecRows)                         *)
(***************************************************************************)

Unflattened == pc = "out"

\* the rows unflatten builds its tree from, and the tree
Body == StripHeader(rows)

BodyTree == BuildTree(Body, <<>>)

\* the cells of a row hold the tokens "number" and "key" in some letter case
NamesNumberAndKey(row) ==
    /\ \E i \in 1..Len(row) : Lower(row[i]) = kw_number
    /\ \E i \in 1..Len(row) : Lower(row[i]) = kw_key

EmptyInputs ==
    (pc = "done" /\ rows = <<>>) => (out = Dict(<<>>) /\ hout = Dict(<<>>))

KeyedChild(number) == TreeAt(BodyTree, number).key # <<>>

Rebuilt(number) == build_structure(BodyTree, number)

\* the last of the numbers cn (taken in order) that has key k
LastWithKey(cn, k) ==
    cn[CHOOSE i \in 1..Len(cn) :
          /\ TreeAt(BodyTree, cn[i]).key = k
          /\ \A j \in (i + 1)..Len(cn) : TreeAt(BodyTree, cn[j]).key # k]

\* C8: shape rule: a node with children is rebuilt as a list if and only if
\* the last address segment of each child is an item marker; otherwise it is
\* rebuilt as a dict that maps each child's non-empty key to the child's
\* rebuilt value; a node without children is rebuilt as its own row value.
C8_ShapeRule ==
    Unflattened =>
        \A n \in 1..Len(BodyTree) :
            LET number == BodyTree[n].number
                cn == child_numbers(BodyTree, number)
                b == Rebuilt(number)
            IN  IF cn = <<>> THEN b = Scalar(BodyTree[n].value)
                ELSE IF \A i \in 1..Len(cn) : is_list_index(Suffix(cn[i]))
                THEN b.tag = "list"
                ELSE /\ b.tag = "dict"
                     /\ \A i \in 1..Len(cn) :
                           KeyedChild(cn[i]) =>
                               LET k == TreeAt(BodyTree, cn[i]).key
                               IN  /\ HasKey(b, k)
                                   /\ Lookup(b, k)
                                        = Rebuilt(LastWithKey(cn, k))

\* a row is a root: one segment, or no row has the address less its last
\* segment
IsRootRow(row) ==
    \/ ~InSeq(row[1], ".")
    \/ ~\E r \in 1..Len(Body) : Body[r][1] \o <<".">> \o Suffix(row[1]) = row[1]

\* the keys of the roots that have a non-empty key, in row order
RootKeys ==
    LET keyed == SelectSeq(Body, LAMBDA row : IsRootRow(row) /\ row[2] # <<>>)
    IN  [i \in 1..Len(keyed) |-> keyed[i][2]]

\* a sequence without the later repetitions of its members
RECURSIVE Distinct(_)
Distinct(seq) ==
    IF seq = <<>> THEN <<>>
    ELSE LET front == Distinct(ButLast(seq))
         IN  IF InSeq(front, Last(seq)) THEN front
             ELSE Append(front, Last(seq))

\* the address of the last root row with key k
LastRootWithKey(k) ==
    Body[CHOOSE r \in 1..Len(Body) :
            /\ IsRootRow(Body[r]) /\ Body[r][2] = k
            /\ \A r2 \in (r + 1)..Len(Body) :
                  ~(IsRootRow(Body[r2]) /\ Body[r2][2] = k)][1]

C10_EmptyKeyMerges ==
    Unflattened =>
        \A n \in 1..Len(BodyTree) :
            LET number == BodyTree[n].number
                cn == child_numbers(BodyTree, number)
                b == Rebuilt(number)
            IN  (cn # <<>> /\ b.tag = "dict") =>
                    \A i \in 1..Len(cn) :
                        IF KeyedChild(cn[i])
                        THEN HasKey(b, TreeAt(BodyTree, cn[i]).key)
                        ELSE Rebuilt(cn[i]).tag = "dict" =>
                                \A j \in 1..Len(Rebuilt(cn[i]).items) :
                                    HasKey(b, Rebuilt(cn[i]).items[j].key)

(***************************************************************************)
(* Rows that are not triples (specification SpecMalformed)                 *)
(***************************************************************************)

\* rows before the malformed one
MaxBefore == 1

n2 == <<"2">>

\* rows of 0, 1, 2, 4 and 5 fields
MalformedRows ==
    { <<>>, <<n2>>, <<n2, ka>>, <<n2, ka, ValueOf(n2), <<"e">>>>,
      <<n2, ka, ValueOf(n2), <<"e">>, <<"d">>>> }

RowsAfter == { <<>>, << <<n2, kb, ValueOf(n2)>> >> }

MalformedLists ==
    {h \o pre \o <<m>> \o post :
        h \in {<<>>} \cup {<<x>> : x \in Headers},
        pre \in Bodies(MaxBefore), m \in MalformedRows, post \in RowsAfter}

InitMalformed ==
    /\ pc = "rows"
    /\ data = NONE
    /\ rows \in MalformedLists
    /\ out = NONE
    /\ hrows = <<>>
    /\ hout = NONE
    /\ NoEnricher

NextMalformed == Unflatten

SpecMalformed == InitMalformed /\ [][NextMalformed]_vars

\* C11: malformed rows abort the conversion: when a row after the stripped
\* header has a number of fields other than 3, unflatten raises and returns
\* nothing, whatever well-formed rows stand before or after it.
C11_MalformedRowsAbort ==
    (pc = "out" /\ \E i \in 1..Len(Body) : Len(Body[i]) # 3) => out = RAISED

\* C11 witness: a header, a well-formed row, then a row of five fields; the
\* call raised.
C11_Witness ==
    /\ pc = "out"
    /\ Len(rows) >= 3
    /\ NamesNumberAndKey(rows[1])
    /\ Len(rows[2]) = 3
    /\ Len(rows[3]) = 5
    /\ out = RAISED

(***************************************************************************)
(* SchemaEnricher (src/mdstools/schema/enricher.py)                        *)
(*                                                                         *)
(* A JSON value is a Python value as above, with None for null.  The       *)
(* schema cache self.schema_cache is a dict from lookup key to schema and  *)
(* is passed to the methods as their first argument.  A call that does not *)
(* return is the value HANGS, a call that raises is RAISED.                *)
(***************************************************************************)

None == [tag |-> "None"]

HANGS == [tag |-> "hangs"]

\* "$ref"
s_ref == <<"$", "r", "e", "f">>

\* "$defs"
s_defs == <<"$", "d", "e", "f", "s">>

\* "definitions"
s_definitions == <<"d", "e", "f", "i", "n", "i", "t", "i", "o", "n", "s">>

\* "$schema"
s_schema == <<"$", "s", "c", "h", "e", "m", "a">>

\* "http://json-schema.org/draft-07/schema#"
s_draft07 ==
    <<"h", "t", "t", "p", ":", "/", "/", "j", "s", "o", "n", "-", "s",
    "c", "h", "e", "m", "a", ".", "o", "r", "g", "/", "d", "r", "a", "f",
    "t", "-", "0", "7", "/", "s", "c", "h", "e", "m", "a", "#">>

\* "properties"
s_properties == <<"p", "r", "o", "p", "e", "r", "t", "i", "e", "s">>

\* "items"
s_items == <<"i", "t", "e", "m", "s">>

\* "type"
s_type == <<"t", "y", "p", "e">>

\* "array"
s_array == <<"a", "r", "r", "a", "y">>

\* "description"
s_description == <<"d", "e", "s", "c", "r", "i", "p", "t", "i", "o", "n">>

\* "examples"
s_examples == <<"e", "x", "a", "m", "p", "l", "e", "s">>

\* "example"
s_example == <<"e", "x", "a", "m", "p", "l", "e">>

\* "const"
s_const == <<"c", "o", "n", "s", "t">>

\* "enum"
s_enum == <<"e", "n", "u", "m">>

\* "anyOf"
s_anyOf == <<"a", "n", "y", "O", "f">>

\* "oneOf"
s_oneOf == <<"o", "n", "e", "O", "f">>

\* "title"
s_title == <<"t", "i", "t", "l", "e">>

\* str.upper of one character
UpperChar(c) ==
    IF InSeq(ascii_lowercase, c)
    THEN ascii_uppercase[IndexOf(ascii_lowercase, c)]
    ELSE c

\* s.startswith(prefix)
startswith(s, prefix) ==
    Len(s) >= Len(prefix) /\ SubSeq(s, 1, Len(prefix)) = prefix

\* sub in s, for strings
Contains(s, sub) ==
    \E i \in 1..(Len(s) - Len(sub) + 1) : SubSeq(s, i, i + Len(sub) - 1) = sub

\* s.split(sep) for a separator of one character: the text before the first
\* separator, then the split of the rest
RECURSIVE SplitOn(_, _)
SplitOn(s, sep) ==
    IF \A i \in 1..Len(s) : s[i] # sep THEN <<s>>
    ELSE LET first == CHOOSE i \in 1..Len(s) :
                          s[i] = sep /\ \A j \in 1..(i - 1) : s[j] # sep
         IN  <<SubSeq(s, 1, first - 1)>>
                 \o SplitOn(SubSeq(s, first + 1, Len(s)), sep)

\* s.lstrip(chars)
RECURSIVE lstrip(_, _)
lstrip(s, chars) ==
    IF s # <<>> /\ Head(s) \in chars THEN lstrip(Tail(s), chars) ELSE s

\* Path(p).stem for a relative path: the last component that is neither
\* empty nor ".", less its last suffix
stem(p) ==
    LET comps == SelectSeq(SplitOn(p, "/"),
                           LAMBDA c : c # <<>> /\ c # <<".">>)
        name == IF comps = <<>> THEN <<>> ELSE Last(comps)
        dots == {j \in 1..Len(name) : name[j] = "."}
        j == IF dots = {} THEN 0
             ELSE CHOOSE x \in dots : \A y \in dots : y <= x
    IN  IF 1 < j /\ j < Len(name) THEN SubSeq(name, 1, j - 1) ELSE name

\* bool(v)
Truth(v) ==
    IF v.tag = "None" THEN FALSE
    ELSE IF v.tag = "scalar" THEN v.s # <<>>
    ELSE v.items # <<>>

\* d.get(k) on a dict
Get(d, k) == IF HasKey(d, k) THEN Lookup(d, k) ELSE None

\* k in c, for a string k and a dict, list or string c
In(k, c) ==
    IF c.tag = "dict" THEN HasKey(c, k)
    ELSE IF c.tag = "list" THEN \E i \in 1..Len(c.items) : c.items[i] = Scalar(k)
    ELSE IF c.tag = "scalar" THEN Contains(c.s, k)
    ELSE FALSE

\* a pair (node, root_schema)
Pair(node, root) == [node |-> node, root |-> root]

NoneNone == Pair(None, None)

\* the loops `for part in parts` of lines 252-256 and 273-277: the node
\* reached, or that a part is missing
RECURSIVE Navigate(_, _)
Navigate(result, parts) ==
    IF parts = <<>> THEN [found |-> TRUE, node |-> result]
    ELSE IF result.tag = "dict" /\ HasKey(result, parts[1])
    THEN Navigate(Lookup(result, parts[1]), Tail(parts))
    ELSE [found |-> FALSE, node |-> None]

\* mutant of _resolve_ref: only references into the current schema are
\* resolved
ResolveRefInternalOnly(cache, ref, current_schema) ==
    IF startswith(ref, <<"#", "/">>)
    THEN LET r == Navigate(current_schema,
                           SplitOn(SubSeq(ref, 3, Len(ref)), "/"))
         IN  IF r.found THEN Pair(r.node, current_schema) ELSE NoneNone
    ELSE NoneNone

_resolve_ref(cache, ref, current_schema) ==
    IF startswith(ref, <<"#", "/">>)
    THEN LET r == Navigate(current_schema,
                           SplitOn(SubSeq(ref, 3, Len(ref)), "/"))
         IN  IF r.found THEN Pair(r.node, current_schema) ELSE NoneNone
    ELSE IF startswith(ref, <<".">>)
    THEN LET halves == SplitOn(ref, "#")
             ref_path == halves[1]
             ref_fragment == IF InSeq(ref, "#") THEN halves[2] ELSE <<>>
             ref_file == lstrip(ref_path, {".", "/"})
             ref_schema_name == stem(ref_file)
         IN  IF HasKey(cache, ref_schema_name)
             THEN LET ref_schema == Lookup(cache, ref_schema_name)
                      r == Navigate(ref_schema,
                                    SplitOn(Tail(ref_fragment), "/"))
                  IN  IF ref_fragment # <<>>
                      THEN IF r.found THEN Pair(r.node, ref_schema)
                           ELSE NoneNone
                      ELSE Pair(ref_schema, ref_schema)
             ELSE NoneNone
    ELSE NoneNone

\* mutant of FollowRefsLoop: the root stays the one the loop started with
RECURSIVE FollowRefsKeepsRoot(_, _, _, _)
FollowRefsKeepsRoot(cache, current, root_schema, seen) ==
    IF current.tag = "dict" /\ HasKey(current, s_ref)
    THEN IF <<current, root_schema>> \in seen THEN HANGS
         ELSE LET r == _resolve_ref(cache, Lookup(current, s_ref).s,
                                    root_schema)
              IN  IF Truth(r.node)
                  THEN FollowRefsKeepsRoot(cache, r.node, root_schema,
                                           seen \cup {<<current, root_schema>>})
                  ELSE Pair(current, root_schema)
    ELSE Pair(current, root_schema)

\* the while loop of lines 408-414.  The loop is deterministic, so it does
\* not end exactly when it comes back to a (current, root_schema) it has
\* been at; seen is the set of those.
RECURSIVE FollowRefsLoop(_, _, _, _)
FollowRefsLoop(cache, current, root_schema, seen) ==
    IF current.tag = "dict" /\ HasKey(current, s_ref)
    THEN IF <<current, root_schema>> \in seen THEN HANGS
         ELSE LET r == _resolve_ref(cache, Lookup(current, s_ref).s,
                                    root_schema)
              IN  IF Truth(r.node)
                  THEN FollowRefsLoop(cache, r.node, r.root,
                                      seen \cup {<<current, root_schema>>})
                  ELSE Pair(current, root_schema)
    ELSE Pair(current, root_schema)

_follow_refs(cache, current, root_schema) ==
    FollowRefsLoop(cache, current, root_schema, {})

\* called on a dict; lines 445-448
_resolve_array_items(cache, current, root_schema) ==
    IF Get(current, s_type) = Scalar(s_array) /\ HasKey(current, s_items)
    THEN _follow_refs(cache, Lookup(current, s_items), root_schema)
    ELSE Pair(current, root_schema)

IsNonEmptyList(v) == v.tag = "list" /\ Len(v.items) > 0

\* mutant of _extract_example: const is looked at before example
ExtractExampleConstFirst(current) ==
    IF HasKey(current, s_examples) /\ IsNonEmptyList(Lookup(current, s_examples))
    THEN Lookup(current, s_examples).items[1]
    ELSE IF HasKey(current, s_const) THEN Lookup(current, s_const)
    ELSE IF HasKey(current, s_example) THEN Lookup(current, s_example)
    ELSE IF HasKey(current, s_enum) /\ IsNonEmptyList(Lookup(current, s_enum))
    THEN Lookup(current, s_enum).items[1]
    ELSE None

_extract_example(current) ==
    IF HasKey(current, s_examples) /\ IsNonEmptyList(Lookup(current, s_examples))
    THEN Lookup(current, s_examples).items[1]
    ELSE IF HasKey(current, s_example) THEN Lookup(current, s_example)
    ELSE IF HasKey(current, s_const) THEN Lookup(current, s_const)
    ELSE IF HasKey(current, s_enum) /\ IsNonEmptyList(Lookup(current, s_enum))
    THEN Lookup(current, s_enum).items[1]
    ELSE None

\* `for option in current[keyword]`: the first option that holds a const
FirstConst(options) ==
    LET with == {i \in 1..Len(options) : In(s_const, options[i])}
        i == CHOOSE x \in with : \A y \in with : x <= y
    IN  IF with = {} THEN [const |-> None, description |-> None]
        ELSE [const |-> Lookup(options[i], s_const),
              description |-> Get(options[i], s_description)]

\* the const and the description of the first option with a const, looking
\* through anyOf and then through oneOf
_extract_from_oneof_anyof(current) ==
    LET listed(keyword) ==
            HasKey(current, keyword) /\ Lookup(current, keyword).tag = "list"
        found(keyword) ==
            listed(keyword)
            /\ \E i \in 1..Len(Lookup(current, keyword).items) :
                  In(s_const, Lookup(current, keyword).items[i])
    IN  IF found(s_anyOf) THEN FirstConst(Lookup(current, s_anyOf).items)
        ELSE IF found(s_oneOf) THEN FirstConst(Lookup(current, s_oneOf).items)
        ELSE [const |-> None, description |-> None]

\* a pair (description, example)
Meta(description, example) ==
    [description |-> description, example |-> example]

NoMeta == Meta(None, None)

\* mutant of _extract_leaf_metadata: the description of the property entry
\* comes before the description of the node
ExtractLeafPropertyFirst(current, prop_description) ==
    LET d0 == Get(current, s_description)
        description == IF Truth(prop_description) THEN prop_description ELSE d0
        example == _extract_example(current)
        alt == _extract_from_oneof_anyof(current)
    IN  IF example # None THEN Meta(description, example)
        ELSE Meta(IF ~Truth(description) /\ Truth(alt.description)
                  THEN alt.description ELSE description,
                  alt.const)

_extract_leaf_metadata(current, prop_description) ==
    LET d0 == Get(current, s_description)
        description == IF Truth(d0) THEN d0 ELSE prop_description
        example == _extract_example(current)
        alt == _extract_from_oneof_anyof(current)
    IN  IF example # None THEN Meta(description, example)
        ELSE Meta(IF ~Truth(description) /\ Truth(alt.description)
                  THEN alt.description ELSE description,
                  alt.const)

\* the loop of lines 543-559 from its i-th turn on; field_path holds the
\* fields still to walk
RECURSIVE GetFieldLoop(_, _, _, _)

\* lines 556-559: f2 is what _follow_refs returned for the property
AfterProperty(cache, prop_description, f2, field_path) ==
    IF f2 = HANGS THEN HANGS
    ELSE IF f2.node.tag # "dict" THEN RAISED
    ELSE IF Len(field_path) = 1
    THEN _extract_leaf_metadata(f2.node, prop_description)
    ELSE
    LET a == _resolve_array_items(cache, f2.node, f2.root)
    IN  IF a = HANGS THEN HANGS
        ELSE GetFieldLoop(cache, a.node, a.root, Tail(field_path))

\* lines 550-554: f1 is what _follow_refs returned for current
StepInto(cache, f1, field_path) ==
    IF f1 = HANGS THEN HANGS
    ELSE IF ~In(s_properties, f1.node) THEN NoMeta
    ELSE IF f1.node.tag # "dict" THEN RAISED
    ELSE IF Lookup(f1.node, s_properties).tag = "None" THEN RAISED
    ELSE IF ~In(field_path[1], Lookup(f1.node, s_properties)) THEN NoMeta
    ELSE IF Lookup(f1.node, s_properties).tag # "dict" THEN RAISED
    ELSE IF Lookup(Lookup(f1.node, s_properties), field_path[1]).tag # "dict"
    THEN RAISED
    ELSE AfterProperty(
            cache,
            Get(Lookup(Lookup(f1.node, s_properties), field_path[1]),
                s_description),
            _follow_refs(cache,
                         Lookup(Lookup(f1.node, s_properties), field_path[1]),
                         f1.root),
            field_path)

GetFieldLoop(cache, current, root_schema, field_path) ==
    IF field_path = <<>> THEN NoMeta
    ELSE IF current.tag # "dict" THEN NoMeta
    ELSE StepInto(cache, _follow_refs(cache, current, root_schema),
                  field_path)

_get_field_metadata(cache, schema, field_path, root_schema) ==
    IF field_path = <<>> THEN NoMeta
    ELSE GetFieldLoop(cache, schema, root_schema, field_path)

enrich_row(cache, key_path) ==
    LET parts == SelectSeq(Split(key_path), LAMBDA p : p # <<>>)
        top_level == parts[1]
        schema == Lookup(cache, top_level)
        pascal_name == <<UpperChar(top_level[1])>> \o Tail(top_level)
    IN  IF key_path = <<>> THEN NoMeta
        ELSE IF parts = <<>> THEN NoMeta
        ELSE IF ~HasKey(cache, top_level) THEN NoMeta
        ELSE IF ~HasKey(schema, s_definitions) THEN NoMeta
        ELSE IF ~HasKey(Lookup(schema, s_definitions), pascal_name) THEN NoMeta
        ELSE _get_field_metadata(cache,
                                 Lookup(Lookup(schema, s_definitions),
                                        pascal_name),
                                 Tail(parts), schema)

\* mutant of PopTo: only the entries that lie deeper are popped
RECURSIVE PopToDeeperOnly(_, _)
PopToDeeperOnly(path_stack, depth) ==
    IF path_stack # <<>> /\ Last(path_stack)[1] > depth
    THEN PopToDeeperOnly(ButLast(path_stack), depth)
    ELSE path_stack

\* the stack after `while path_stack and path_stack[-1][0] >= depth: pop()`
RECURSIVE PopTo(_, _)
PopTo(path_stack, depth) ==
    IF path_stack # <<>> /\ Last(path_stack)[1] >= depth
    THEN PopTo(ButLast(path_stack), depth)
    ELSE path_stack

\* the stack when the row's path is built (lines 694-711)
StackAt(path_stack, row) ==
    LET depth == Len(Split(row[1]))
        popped == PopTo(path_stack, depth)
    IN  IF row[2] # <<>> THEN Append(popped, <<depth, row[2]>>) ELSE popped

\* ".".join([k for _, k in path_stack])
full_path(path_stack) ==
    Join([i \in 1..Len(path_stack) |-> path_stack[i][2]])

\* mutant of StackAfter: the key of a leaf row stays on the stack
StackAfterKeepsLeaf(path_stack, row) == path_stack

\* the stack after the row (lines 731-733)
StackAfter(path_stack, row) ==
    IF /\ row[3] # NESTED
       /\ path_stack # <<>>
       /\ Last(path_stack)[2] = row[2]
       /\ row[2] # <<>>
    THEN ButLast(path_stack)
    ELSE path_stack

\* mutant of EnrichedRow: the schema's None is passed on
EnrichedRowKeepsNone(row, m) ==
    <<row[1], row[2], row[3], m.example, m.description>>

\* the row appended to enriched (lines 720-728)
EnrichedRow(row, m) ==
    <<row[1], row[2], row[3],
      IF m.example # None THEN m.example ELSE Scalar(<<>>),
      IF m.description # None THEN m.description ELSE Scalar(<<>>)>>

\* what a call of enrich_flattened_data that returns leaves: the list it
\* returns, the paths it looked up, and its local path_stack
Returned(enriched, paths, path_stack) ==
    [tag |-> "returned", enriched |-> enriched, paths |-> paths,
     path_stack |-> path_stack]

\* the loop of lines 690-733
RECURSIVE EnrichLoop(_, _, _, _, _)

\* lines 717-733 for the first row: stack is the stack when its path was
\* built, m what enrich_row returned for the path
EnrichStep(cache, flattened_rows, stack, m, enriched, paths) ==
    IF m = HANGS THEN HANGS
    ELSE IF m = RAISED THEN RAISED
    ELSE EnrichLoop(cache, Tail(flattened_rows),
                    StackAfter(stack, flattened_rows[1]),
                    Append(enriched, EnrichedRow(flattened_rows[1], m)),
                    Append(paths, full_path(stack)))

EnrichLoop(cache, flattened_rows, path_stack, enriched, paths) ==
    IF flattened_rows = <<>> THEN Returned(enriched, paths, path_stack)
    ELSE IF Len(flattened_rows[1]) # 3 THEN RAISED
    ELSE EnrichStep(
            cache, flattened_rows, StackAt(path_stack, flattened_rows[1]),
            enrich_row(cache,
                       full_path(StackAt(path_stack, flattened_rows[1]))),
            enriched, paths)

\* mutant of NewPathStack: the stack the previous call left behind
LeftoverPathStack == path_stack_left

\* path_stack = [] (line 688)
NewPathStack == <<>>

enrich_flattened_data(cache, flattened_rows) ==
    EnrichLoop(cache, flattened_rows, NewPathStack, <<>>, <<>>)

\* a file of the schema directory: its stem and its parsed content
File(name, schema) == [stem |-> name, schema |-> schema]

\* the schema after _normalize_defs(schema); a key that is added comes last
_normalize_defs(schema) ==
    IF HasKey(schema, s_defs) /\ ~HasKey(schema, s_definitions)
    THEN Dict(Append(schema.items,
                     Item(s_definitions, Lookup(schema, s_defs))))
    ELSE IF HasKey(schema, s_definitions) /\ ~HasKey(schema, s_defs)
    THEN Dict(Append(schema.items,
                     Item(s_defs, Lookup(schema, s_definitions))))
    ELSE schema

\* the wrapper of lines 161-168
Wrapper(def_name, def_value, schema_data) ==
    _normalize_defs(Dict(<<
        Item(s_definitions, Dict(<<Item(def_name, def_value)>>)),
        Item(s_schema, IF HasKey(schema_data, s_schema)
                       THEN Lookup(schema_data, s_schema)
                       ELSE Scalar(s_draft07))>>))

\* the loop of lines 159-169 over the items defs of the definitions block
RECURSIVE RegisterLoop(_, _, _)
RegisterLoop(cache, defs, schema_data) ==
    IF defs = <<>> THEN cache
    ELSE RegisterLoop(
            IF HasKey(cache, defs[1].key) THEN cache
            ELSE Dict(Append(cache.items,
                             Item(defs[1].key,
                                  Wrapper(defs[1].key, defs[1].val,
                                          schema_data)))),
            Tail(defs), schema_data)

_register_definitions(cache, schema_data) ==
    RegisterLoop(cache, Lookup(schema_data, s_definitions).items, schema_data)

\* the loop of lines 130-139 over the files in the order glob yields them
RECURSIVE _load_root_schemas(_, _)
_load_root_schemas(cache, files) ==
    IF files = <<>> THEN cache
    ELSE IF HasKey(cache, files[1].stem)
    THEN _load_root_schemas(cache, Tail(files))
    ELSE LET schema_data == _normalize_defs(files[1].schema)
             loaded == Dict(Append(cache.items,
                                   Item(files[1].stem, schema_data)))
         IN  _load_root_schemas(
                IF HasKey(schema_data, s_definitions)
                THEN _register_definitions(loaded, schema_data)
                ELSE loaded,
                Tail(files))

\* title[0].lower() + title[1:]
Camel(title) == <<LowerChar(title[1])>> \o Tail(title)

\* mutant of RegisterTitle: the title is registered, its camelCase form is
\* not
RegisterTitleNoCamel(cache, def_value, schema_data) ==
    LET title == IF HasKey(def_value, s_title)
                 THEN Lookup(def_value, s_title).s ELSE <<>>
    IN  IF def_value.tag # "dict" THEN cache
        ELSE IF title # <<>> /\ ~HasKey(cache, title)
        THEN Dict(Append(cache.items, Item(title, schema_data)))
        ELSE cache

\* lines 194-206 for one definition of schema_data
RegisterTitle(cache, def_value, schema_data) ==
    LET title == IF HasKey(def_value, s_title)
                 THEN Lookup(def_value, s_title).s ELSE <<>>
        c1 == IF title # <<>> /\ ~HasKey(cache, title)
              THEN Dict(Append(cache.items, Item(title, schema_data)))
              ELSE cache
    IN  IF def_value.tag # "dict" THEN cache
        ELSE IF title # <<>> /\ Camel(title) # title
                /\ ~HasKey(c1, Camel(title))
        THEN Dict(Append(c1.items, Item(Camel(title), schema_data)))
        ELSE c1

\* the inner loop of lines 194-206
RECURSIVE TitleDefsLoop(_, _, _)
TitleDefsLoop(cache, defs, schema_data) ==
    IF defs = <<>> THEN cache
    ELSE TitleDefsLoop(RegisterTitle(cache, defs[1].val, schema_data),
                       Tail(defs), schema_data)

\* the outer loop of lines 191-206 over the keys the cache had at its start
RECURSIVE TitleLoop(_, _)
TitleLoop(cache, schema_names) ==
    IF schema_names = <<>> THEN cache
    ELSE LET schema_data == Lookup(cache, schema_names[1])
         IN  TitleLoop(
                IF HasKey(schema_data, s_definitions)
                THEN TitleDefsLoop(cache,
                                   Lookup(schema_data, s_definitions).items,
                                   schema_data)
                ELSE cache,
                Tail(schema_names))

_register_schemas_by_title(cache) == TitleLoop(cache, KeysOf(cache))

\* the cache after SchemaEnricher(schema_dir), for the files of the directory
_load_schemas(files) ==
    _register_schemas_by_title(_load_root_schemas(Dict(<<>>), files))

(***************************************************************************)
(* Calls on an enricher (specification SpecEnrich)                         *)
(*                                                                         *)
(* The schema directory holds a.json and b.json.  The definition A of      *)
(* a.json has the properties p and q; p ranges over PNodes and the         *)
(* definition C over CNodes, which makes the $ref chains of the directory  *)
(* end, miss, leave the file, or run in a circle.                          *)
(***************************************************************************)

\* "#/definitions/"
hash_definitions == <<"#", "/">> \o s_definitions \o <<"/">>

\* "a.json"
a_json == <<"a", ".", "j", "s", "o", "n">>

\* "b.json"
b_json == <<"b", ".", "j", "s", "o", "n">>

\* definition B of a.json: {"description": "dB", "enum": ["n1", "n2"],
\*   "properties": {"r": {"description": "dr", "const": "c"}}}
DefB ==
    Dict(<<Item(s_description, Scalar(<<"d", "B">>)), Item(s_enum,
      List(<<Scalar(<<"n", "1">>), Scalar(<<"n", "2">>)>>)),
      Item(s_properties, Dict(<<Item(<<"r">>, Dict(<<Item(s_description,
      Scalar(<<"d", "r">>)), Item(s_const, Scalar(<<"c">>))>>))>>))>>)

\* p as an array of B: {"type": "array", "items": {"$ref":
\*   "#/definitions/B"}}
PArrayOfB ==
    Dict(<<Item(s_type, Scalar(s_array)), Item(s_items, Dict(<<Item(s_ref,
      Scalar(hash_definitions \o <<"B">>))>>))>>)

\* the property p of the definition A
PNodes == {
    \* {"description": "dp", "examples": ["e1"]}
    Dict(<<Item(s_description, Scalar(<<"d", "p">>)), Item(s_examples,
      List(<<Scalar(<<"e", "1">>)>>))>>),
    \* {"$ref": "#/definitions/B"}
    Dict(<<Item(s_ref, Scalar(hash_definitions \o <<"B">>))>>),
    \* {"$ref": "#/definitions/B", "description": "dp"}
    Dict(<<Item(s_ref, Scalar(hash_definitions \o <<"B">>)),
      Item(s_description, Scalar(<<"d", "p">>))>>),
    \* PArrayOfB
    PArrayOfB,
    \* {"type": "array", "items": {"type": "array", "items": {"$ref": "#/definitions/B"}}}
    Dict(<<Item(s_type, Scalar(s_array)), Item(s_items, Dict(<<Item(s_type,
      Scalar(s_array)), Item(s_items, Dict(<<Item(s_ref,
      Scalar(hash_definitions \o <<"B">>))>>))>>))>>),
    \* {"$ref": "./b.json#/definitions/B"}
    Dict(<<Item(s_ref, Scalar(<<".", "/">> \o b_json \o hash_definitions \o
      <<"B">>))>>),
    \* {"$ref": "./b.json#/definitions/D"}
    Dict(<<Item(s_ref, Scalar(<<".", "/">> \o b_json \o hash_definitions \o
      <<"D">>))>>),
    \* {"$ref": "#/definitions/C"}
    Dict(<<Item(s_ref, Scalar(hash_definitions \o <<"C">>))>>),
    \* {"$ref": "#/definitions/Missing", "description": "dp"}
    Dict(<<Item(s_ref, Scalar(hash_definitions \o <<"M", "i", "s", "s", "i",
      "n", "g">>)), Item(s_description, Scalar(<<"d", "p">>))>>),
    \* {"$ref": "#/definitions/Missing"}
    Dict(<<Item(s_ref, Scalar(hash_definitions \o <<"M", "i", "s", "s", "i",
      "n", "g">>))>>),
    \* {"$ref": "http://x/y", "description": "dp", "example": "x"}
    Dict(<<Item(s_ref, Scalar(<<"h", "t", "t", "p", ":", "/", "/", "x", "/",
      "y">>)), Item(s_description, Scalar(<<"d", "p">>)), Item(s_example,
      Scalar(<<"x">>))>>),
    \* {"$ref": "#/definitions/B/description"}
    Dict(<<Item(s_ref, Scalar(hash_definitions \o <<"B", "/", "d", "e", "s",
      "c", "r", "i", "p", "t", "i", "o", "n">>))>>),
    \* {"$ref": "#/definitions/E", "description": "dp"}
    Dict(<<Item(s_ref, Scalar(hash_definitions \o <<"E">>)),
      Item(s_description, Scalar(<<"d", "p">>))>>) }

\* C as a plain node: {"description": "dC", "properties": {"r":
\*   {"example": "xc"}}}
CPlain ==
    Dict(<<Item(s_description, Scalar(<<"d", "C">>)), Item(s_properties,
      Dict(<<Item(<<"r">>, Dict(<<Item(s_example, Scalar(<<"x",
      "c">>))>>))>>))>>)

\* the definition C of a.json: a plain node, a reference to itself, and a
\* reference to D of b.json, which refers back to C
CNodes == {
    \* CPlain
    CPlain,
    \* {"$ref": "#/definitions/C"}
    Dict(<<Item(s_ref, Scalar(hash_definitions \o <<"C">>))>>),
    \* {"$ref": "./b.json#/definitions/D"}
    Dict(<<Item(s_ref, Scalar(<<".", "/">> \o b_json \o hash_definitions \o
      <<"D">>))>>) }

\* a.json
FileA(p, c) ==
    File(<<"a">>,
      Dict(<<Item(s_definitions, Dict(<<Item(<<"A">>,
        Dict(<<Item(s_description, Scalar(<<"d", "A">>)), Item(s_properties,
        Dict(<<Item(<<"p">>, p), Item(<<"q">>, Dict(<<Item(s_description,
        Scalar(<<"d", "q">>)), Item(s_examples, List(<<Scalar(<<"e", "1">>),
        Scalar(<<"e", "2">>)>>))>>))>>))>>)), Item(<<"B">>, DefB),
        Item(<<"C">>, c), Item(<<"E">>, Dict(<<>>))>>))>>))

\* b.json: {"$defs": {"B": {"description": "dB2", "properties": {"r":
\*   {"example": "x"}}}, "D": {"$ref": "../a.json#/definitions/C"}}}
SchemaB ==
    Dict(<<Item(s_defs, Dict(<<Item(<<"B">>, Dict(<<Item(s_description,
      Scalar(<<"d", "B", "2">>)), Item(s_properties, Dict(<<Item(<<"r">>,
      Dict(<<Item(s_example, Scalar(<<"x">>))>>))>>))>>)), Item(<<"D">>,
      Dict(<<Item(s_ref, Scalar(<<".", ".", "/">> \o a_json \o
      hash_definitions \o <<"C">>))>>))>>))>>)

FileB == File(<<"b">>, SchemaB)

\* the directories, as the file lists glob yields
EnrichDirs == {<<FileA(p, c), FileB>> : p \in PNodes, c \in CNodes}

\* the key paths handed to enrich_row
KeyPaths == {
    <<>>, <<".">>, <<"a">>, <<"a", ".", "p">>, <<"a", ".", "p", ".", "r">>,
      <<"a", ".", "q">>, <<"a", ".", ".", "q">>, <<"a", ".", "z", "z">>,
      <<"a", ".", "p", ".", "r", ".", "s">>, <<"A", ".", "p">>, <<"B", ".",
      "r">>, <<"b", ".", "r">>, <<"D", ".", "r">>, <<"z", "z", ".", "p">> }

\* the row lists handed to enrich_flattened_data; the last holds a row of
\* five fields
RowInputs == {
    <<  >>,
    << <<<<"1">>, <<"a">>, NESTED>>, <<<<"1", ".", "1">>, <<"p">>, NESTED>>,
      <<<<"1", ".", "1", ".", "a">>, <<>>, NESTED>>, <<<<"1", ".", "1", ".",
      "a", ".", "1">>, <<"r">>, <<"v">>>>, <<<<"1", ".", "2">>, <<"q">>,
      <<"w">>>> >>,
    << <<<<"1">>, <<"z", "z">>, <<"v">>>>, <<<<"2">>, <<"a">>, NESTED>>,
      <<<<"2", ".", "1">>, <<"q">>, <<"w">>>> >>,
    << <<<<"1">>, <<"b">>, NESTED>>, <<<<"1", ".", "1">>, <<"r">>,
      <<"v">>>>, <<<<"1", ".", "2">>, <<>>, <<"w">>>> >>,
    << <<<<"1">>, <<"a">>, NESTED>>, <<<<"1", ".", "1">>, <<"q">>, <<"w">>,
      <<"e", "1">>, <<"d", "q">>>> >>,
    << <<<<"1", ".", "1">>, <<"p">>, <<"v">>>>, <<<<"1">>, <<"a">>,
      NESTED>> >> }

\* calls of enrich_flattened_data on one enricher
MaxCalls == 2

\* a call: the method, its argument, and what came of it
Call(op, arg, val) == [op |-> op, arg |-> arg, val |-> val]

\* mutant of schema_cache_after: the looked-up argument is remembered in the
\* cache
SchemaCacheRemembers(cache, arg) ==
    Dict(Append(cache.items, Item(<<"_", "s", "e", "e", "n">>, None)))

\* self.schema_cache after a call of enrich_row or enrich_flattened_data:
\* neither they nor the methods they call assign to the cache or to a node
schema_cache_after(cache, arg) == cache

\* enricher = SchemaEnricher(schema_dir)
InitEnrich ==
    /\ pc = "ready"
    /\ data = NONE
    /\ rows = <<>>
    /\ out = NONE
    /\ hrows = <<>>
    /\ hout = NONE
    /\ schema_dir \in EnrichDirs
    /\ schema_cache = _load_schemas(schema_dir)
    /\ calls = <<>>
    /\ ret = NONE
    /\ path_stack_left = <<>>

\* ret = enricher.enrich_row(key_path, value)
EnrichRow ==
    /\ pc = "ready"
    /\ \E key_path \in KeyPaths :
          /\ ret' = Call("enrich_row", key_path,
                         enrich_row(schema_cache, key_path))
          /\ pc' = IF ret'.val = HANGS THEN "hung" ELSE "ready"
          /\ schema_cache' = schema_cache_after(schema_cache, key_path)
    /\ UNCHANGED <<data, rows, out, hrows, hout>>
    /\ UNCHANGED <<schema_dir, calls, path_stack_left>>

\* enricher.enrich_flattened_data(flattened_rows), appended to calls
EnrichFlattenedData ==
    /\ pc = "ready"
    /\ Len(calls) < MaxCalls
    /\ \E flattened_rows \in RowInputs :
          /\ calls' = Append(calls,
                  Call("enrich_flattened_data", flattened_rows,
                       enrich_flattened_data(schema_cache, flattened_rows)))
          /\ pc' = IF Last(calls').val = HANGS THEN "hung" ELSE "ready"
          /\ path_stack_left' = IF Last(calls').val.tag = "returned"
                                THEN Last(calls').val.path_stack
                                ELSE path_stack_left
          /\ schema_cache' = schema_cache_after(schema_cache, flattened_rows)
    /\ UNCHANGED <<data, rows, out, hrows, hout>>
    /\ UNCHANGED <<schema_dir, ret>>

NextEnrich == EnrichRow \/ EnrichFlattenedData

SpecEnrich == InitEnrich /\ [][NextEnrich]_vars

(***************************************************************************)
(* Claims about the enricher                                               *)
(***************************************************************************)

\* the calls of enrich_flattened_data that returned
ReturnedCalls == {i \in 1..Len(calls) : calls[i].val.tag = "returned"}

EmptyString == Scalar(<<>>)

Outcome(c) == IF c.val.tag = "returned" THEN c.val.enriched ELSE c.val

C17_FollowRefsTerminates ==
    /\ pc # "hung"
    /\ ret # NONE => ret.val # HANGS
    /\ \A i \in 1..Len(calls) : calls[i].val # HANGS

\* the walk C18 describes, from node along the segments: $ref chains are
\* followed before and after the step into properties[segment], an array is
\* unwrapped to its items between steps, the metadata of the node reached at
\* the last segment is returned, and (None, None) where a property is missing
RECURSIVE WalkAsStated(_, _, _)
WalkAsStated(node, root, segments) ==
    LET before == _follow_refs(schema_cache, node, root)
    IN  IF before = HANGS THEN HANGS
        ELSE IF before.node.tag # "dict"
                \/ ~HasKey(before.node, s_properties)
                \/ Lookup(before.node, s_properties).tag # "dict"
                \/ ~HasKey(Lookup(before.node, s_properties), segments[1])
        THEN NoMeta
        ELSE
        LET prop == Lookup(Lookup(before.node, s_properties), segments[1])
            after == _follow_refs(schema_cache, prop, before.root)
        IN  IF after = HANGS THEN HANGS
            ELSE IF after.node.tag # "dict" THEN NoMeta
            ELSE IF Len(segments) = 1
            THEN _extract_leaf_metadata(after.node,
                    IF prop.tag = "dict" THEN Get(prop, s_description)
                    ELSE None)
            ELSE
            LET items == IF Get(after.node, s_type) = Scalar(s_array)
                            /\ HasKey(after.node, s_items)
                         THEN _follow_refs(schema_cache,
                                           Lookup(after.node, s_items),
                                           after.root)
                         ELSE after
            IN  IF items = HANGS THEN HANGS
                ELSE WalkAsStated(items.node, items.root, Tail(segments))

\* the lookup C18 describes for a path
LookupAsStated(path) ==
    LET segments == SplitOn(path, ".")
        s == segments[1]
        name == <<UpperChar(s[1])>> \o Tail(s)
    IN  IF path = <<>> \/ Len(segments) = 1 THEN NoMeta
        ELSE IF s = <<>> \/ ~HasKey(schema_cache, s) THEN NoMeta
        ELSE IF ~HasKey(Lookup(schema_cache, s), s_definitions) THEN NoMeta
        ELSE IF ~HasKey(Lookup(Lookup(schema_cache, s), s_definitions), name)
        THEN NoMeta
        ELSE WalkAsStated(
                Lookup(Lookup(Lookup(schema_cache, s), s_definitions), name),
                Lookup(schema_cache, s), Tail(segments))

\* C18: field lookup: enrich_row(path) takes the first dot-separated segment
\* s as the cache key, starts at the definition of cache[s] named s with its
\* first letter upper-cased, steps into properties[segment] for each
\* remaining segment, following $ref chains before and after the step and
\* unwrapping an array to its items between steps, and returns the metadata
\* of the node reached at the last segment, or (None, None) when the path is
\* empty or has one segment, the key or the definition is absent, or a
\* step's property is missing.
C18_FieldLookup ==
    (ret # NONE /\ ret.op = "enrich_row" /\ ret.val # HANGS) =>
        ret.val = LookupAsStated(ret.arg)

\* a lookup of non-empty segments that returned
ReturnedLookup ==
    /\ ret # NONE
    /\ ret.op = "enrich_row"
    /\ ret.val \notin {HANGS, RAISED}
    /\ \A i \in 1..Len(SplitOn(ret.arg, ".")) : SplitOn(ret.arg, ".")[i] # <<>>

\* the lookups that return do so as C18 says, the paths with an empty
\* segment (a..q) aside
FieldLookupWhereReturned == ReturnedLookup => ret.val = LookupAsStated(ret.arg)

(***************************************************************************)
(* The rows of a flattened tree are enriched (specification SpecPaths)     *)
(***************************************************************************)

\* every key of every dict of v is a non-empty string
RECURSIVE NonEmptyKeys(_)
NonEmptyKeys(v) ==
    IF v.tag = "scalar" THEN TRUE
    ELSE IF v.tag = "dict"
    THEN \A i \in 1..Len(v.items) :
            v.items[i].key # <<>> /\ NonEmptyKeys(v.items[i].val)
    ELSE \A i \in 1..Len(v.items) : NonEmptyKeys(v.items[i])

\* {a: t1, b: t2}: two nested values side by side
Siblings(V) == {Dict(<<Item(ka, t1), Item(kb, t2)>>) : t1 \in V, t2 \in V}

PathTrees ==
    {t \in Trees \cup Siblings(Level(TreeDepth - 1)) : NonEmptyKeys(t)}

\* the schema directory of the enricher that looks the paths up
PathDir == <<FileA(PArrayOfB, CPlain), FileB>>

InitPaths ==
    /\ pc = "data"
    /\ data \in PathTrees
    /\ rows = <<>>
    /\ out = NONE
    /\ hrows = <<>>
    /\ hout = NONE
    /\ schema_dir = PathDir
    /\ schema_cache = _load_schemas(schema_dir)
    /\ calls = <<>>
    /\ ret = NONE
    /\ path_stack_left = <<>>

\* enricher.enrich_flattened_data(rows) on the rows of the flattened tree
EnrichFlattened ==
    /\ pc = "rows"
    /\ calls' = Append(calls,
            Call("enrich_flattened_data", rows,
                 enrich_flattened_data(schema_cache, rows)))
    /\ pc' = IF Last(calls').val = HANGS THEN "hung" ELSE "enriched"
    /\ path_stack_left' = IF Last(calls').val.tag = "returned"
                          THEN Last(calls').val.path_stack
                          ELSE path_stack_left
    /\ schema_cache' = schema_cache_after(schema_cache, rows)
    /\ UNCHANGED <<data, rows, out, hrows, hout>>
    /\ UNCHANGED <<schema_dir, ret>>

NextPaths == Flatten \/ EnrichFlattened

SpecPaths == InitPaths /\ [][NextPaths]_vars

\* the non-empty strings of a sequence of strings
NonEmpty(seq) == SelectSeq(seq, LAMBDA k : k # <<>>)

\* the keys of the rows at the proper prefixes of the address of row j,
\* outermost first, followed by the key of row j
KeysAbove(j) ==
    LET segs == Split(rows[j][1])
        keyAt(number) ==
            IF \E r \in 1..Len(rows) : rows[r][1] = number
            THEN rows[CHOOSE r \in 1..Len(rows) : rows[r][1] = number][2]
            ELSE <<>>
    IN  [k \in 1..Len(segs) |-> keyAt(Join(SubSeq(segs, 1, k)))]

\* C13: enricher path tracking: for the rows of a flattened tree with
\* non-empty keys, the path looked up for a row is the dot-joined sequence of
\* the non-empty keys of the rows at its ancestor addresses, outermost first,
\* followed by its own key if that is non-empty; rows of list items add no
\* segment.
C13_PathTracking ==
    (pc = "enriched" /\ NonEmptyKeys(data)) =>
        \A j \in 1..Len(rows) :
            calls[1].val.paths[j] = Join(NonEmpty(KeysAbove(j)))

\* C13 witness: a row below a list item of the second of two nested siblings
\* is looked up under the sibling's key and its own, the first sibling's
\* entries having been popped.
C13_Witness ==
    /\ pc = "enriched"
    /\ NonEmptyKeys(data)
    /\ \E j \in 3..Len(rows) :
          /\ Len(KeysAbove(j)) = 3
          /\ Len(NonEmpty(KeysAbove(j))) = 2
          /\ KeysAbove(j)[1] = kb
          /\ calls[1].val.paths[j] = Join(NonEmpty(KeysAbove(j)))
          /\ \E i \in 1..(j - 1) :
                /\ Len(KeysAbove(i)) = 3
                /\ KeysAbove(i)[1] = ka

(***************************************************************************)
(* References are resolved (specification SpecRefs)                        *)
(***************************************************************************)

\* C with a null value: {"description": "dC", "default": null}
CNull ==
    Dict(<<Item(s_description, Scalar(<<"d", "C">>)), Item(<<"d", "e", "f",
      "a", "u", "l", "t">>, None)>>)

\* p as a reference to the null of CNull: {"$ref":
\*   "#/definitions/C/default", "description": "dn", "example": "en"}
PRefNull ==
    Dict(<<Item(s_ref, Scalar(hash_definitions \o <<"C", "/", "d", "e", "f",
      "a", "u", "l", "t">>)), Item(s_description, Scalar(<<"d", "n">>)),
      Item(s_example, Scalar(<<"e", "n">>))>>)

\* the property p of the definition A of a.json: references into b.json,
\* plain, through a directory, to a reference, as array items, and back into
\* a.json; and a reference within a.json
RootPNodes == {
    \* {"$ref": "./b.json#/definitions/B"}
    Dict(<<Item(s_ref, Scalar(<<".", "/">> \o b_json \o hash_definitions \o
      <<"B">>))>>),
    \* {"$ref": "../dir/b.json#/definitions/B"}
    Dict(<<Item(s_ref, Scalar(<<".", ".", "/", "d", "i", "r", "/">> \o
      b_json \o hash_definitions \o <<"B">>))>>),
    \* {"$ref": "./b.json#/definitions/X"}
    Dict(<<Item(s_ref, Scalar(<<".", "/">> \o b_json \o hash_definitions \o
      <<"X">>))>>),
    \* {"type": "array", "items": {"$ref": "./b.json#/definitions/B"}}
    Dict(<<Item(s_type, Scalar(s_array)), Item(s_items, Dict(<<Item(s_ref,
      Scalar(<<".", "/">> \o b_json \o hash_definitions \o <<"B">>))>>))>>),
    \* {"$ref": "#/definitions/R"}
    Dict(<<Item(s_ref, Scalar(hash_definitions \o <<"R">>))>>),
    \* {"$ref": "./b.json#/definitions/Y"}
    Dict(<<Item(s_ref, Scalar(<<".", "/">> \o b_json \o hash_definitions \o
      <<"Y">>))>>) }

\* a.json: {"definitions": {"A": {"properties": {"p": p}}, "R":
\*   {"description": "Ra"}, "B": {"properties": {"r": {"description":
\*   "Ba"}}}, "Z": {"properties": {"r": {"$ref": "#/definitions/R"}}}}}
RootA(p) ==
    File(<<"a">>,
      Dict(<<Item(s_definitions, Dict(<<Item(<<"A">>,
        Dict(<<Item(s_properties, Dict(<<Item(<<"p">>, p)>>))>>)),
        Item(<<"R">>, Dict(<<Item(s_description, Scalar(<<"R", "a">>))>>)),
        Item(<<"B">>, Dict(<<Item(s_properties, Dict(<<Item(<<"r">>,
        Dict(<<Item(s_description, Scalar(<<"B", "a">>))>>))>>))>>)),
        Item(<<"Z">>, Dict(<<Item(s_properties, Dict(<<Item(<<"r">>,
        Dict(<<Item(s_ref, Scalar(hash_definitions \o
        <<"R">>))>>))>>))>>))>>))>>))

\* b.json: {"definitions": {"B": {"properties": {"r": {"$ref":
\*   "#/definitions/R"}}}, "X": {"$ref": "#/definitions/R"}, "Y": {"$ref":
\*   "../a.json#/definitions/Z"}, "R": {"description": "Rb", "example":
\*   "xb"}}}
RootSchemaB ==
    Dict(<<Item(s_definitions, Dict(<<Item(<<"B">>,
      Dict(<<Item(s_properties, Dict(<<Item(<<"r">>, Dict(<<Item(s_ref,
      Scalar(hash_definitions \o <<"R">>))>>))>>))>>)), Item(<<"X">>,
      Dict(<<Item(s_ref, Scalar(hash_definitions \o <<"R">>))>>)),
      Item(<<"Y">>, Dict(<<Item(s_ref, Scalar(<<".", ".", "/">> \o a_json \o
      hash_definitions \o <<"Z">>))>>)), Item(<<"R">>,
      Dict(<<Item(s_description, Scalar(<<"R", "b">>)), Item(s_example,
      Scalar(<<"x", "b">>))>>))>>))>>)

RootDirs == {<<RootA(p), File(<<"b">>, RootSchemaB)>> : p \in RootPNodes}

\* the directories of SpecEnrich, two in which C holds a null, and those in
\* which both files define R
RefDirs ==
    EnrichDirs \cup {<<FileA(p, CNull), FileB>> : p \in {PRefNull, PArrayOfB}}
      \cup RootDirs

\* the ref strings handed to _resolve_ref
RefStrings == {
    hash_definitions \o <<"B">>, hash_definitions \o <<"M", "i", "s", "s",
      "i", "n", "g">>, hash_definitions \o <<"C", "/", "d", "e", "f", "a",
      "u", "l", "t">>, hash_definitions \o <<"B", "/", "d", "e", "s", "c",
      "r", "i", "p", "t", "i", "o", "n">>, hash_definitions \o <<"E">>,
      hash_definitions \o <<"B", "/", "p", "r", "o", "p", "e", "r", "t",
      "i", "e", "s", "/", "r">>, <<".", "/">> \o b_json \o hash_definitions
      \o <<"B">>, <<".", ".", "/">> \o a_json \o hash_definitions \o
      <<"C">>, <<".", "/">> \o b_json \o hash_definitions \o <<"M", "i",
      "s", "s", "i", "n", "g">>, <<".", "/", "a">> \o hash_definitions \o
      <<"C", "/", "d", "e", "f", "a", "u", "l", "t">>, <<".", "/", "z", "z",
      ".", "j", "s", "o", "n">> \o hash_definitions \o <<"B">>, <<".", "/">>
      \o b_json, <<".", ".", "/">> \o a_json \o <<"#">>, <<".", "/">> \o
      a_json \o <<"#", "/">>, <<"h", "t", "t", "p", ":", "/", "/", "x", "/",
      "y">>, <<"d", "e", "f", "i", "n", "i", "t", "i", "o", "n", "s", "/",
      "B">>, <<"#">>, <<"#", "/">>, <<".">>, <<>>,
      <<".", ".", "/", "d", "i", "r", "/">> \o b_json \o hash_definitions \o
      <<"R">> }

\* the roots a reference is resolved against: the two files' schemas, and two
\* values that are no dict
RefRoots ==
    {Lookup(schema_cache, <<"a">>), Lookup(schema_cache, <<"b">>), None,
     Scalar(<<"s">>)}

\* enricher = SchemaEnricher(schema_dir)
InitRefs ==
    /\ pc = "ready"
    /\ data = NONE
    /\ rows = <<>>
    /\ out = NONE
    /\ hrows = <<>>
    /\ hout = NONE
    /\ schema_dir \in RefDirs
    /\ schema_cache = _load_schemas(schema_dir)
    /\ calls = <<>>
    /\ ret = NONE
    /\ path_stack_left = <<>>

\* enricher._resolve_ref(ref, current_schema)
ResolveRef ==
    /\ pc = "ready"
    /\ \E ref \in RefStrings, current_schema \in RefRoots :
          /\ ret' = Call("_resolve_ref",
                         [ref |-> ref, current_schema |-> current_schema],
                         _resolve_ref(schema_cache, ref, current_schema))
          /\ schema_cache' = schema_cache_after(schema_cache, ref)
    /\ UNCHANGED <<pc, data, rows, out, hrows, hout>>
    /\ UNCHANGED <<schema_dir, calls, path_stack_left>>

NextRefs == ResolveRef \/ EnrichRow

SpecRefs == InitRefs /\ [][NextRefs]_vars

\* the values a JSON pointer of the given segments leads to in v: one, or none
RECURSIVE AtPointer(_, _)
AtPointer(v, segments) ==
    IF segments = <<>> THEN {v}
    ELSE IF v.tag # "dict" THEN {}
    ELSE UNION {AtPointer(v.items[i].val, Tail(segments)) :
                  i \in {j \in 1..Len(v.items) : v.items[j].key = segments[1]}}

\* the pairs (target, schema that holds it) the reference stands for: a
\* pointer "#/..." into the current root, or "./", "../" or "../dir/", the
\* stem of a cached schema with or without ".json", and an optional pointer "#/..."
\* into that schema
Targets(ref, current_schema) ==
    LET hash == IF InSeq(ref, "#") THEN IndexOf(ref, "#") ELSE Len(ref) + 1
        file == SubSeq(ref, 1, hash - 1)
        pointer == SubSeq(ref, hash + 1, Len(ref))
        named(k) == \E pre \in {<<".", "/">>, <<".", ".", "/">>,
                                  <<".", ".", "/", "d", "i", "r", "/">>},
                       suf \in {<<>>, <<".", "j", "s", "o", "n">>} :
                        file = pre \o k \o suf
    IN  IF startswith(ref, <<"#", "/">>)
        THEN {Pair(t, current_schema) :
                t \in AtPointer(current_schema,
                                SplitOn(SubSeq(ref, 3, Len(ref)), "/"))}
        ELSE UNION {
               {Pair(t, schema_cache.items[i].val) :
                  t \in IF pointer = <<>> THEN {schema_cache.items[i].val}
                        ELSE AtPointer(schema_cache.items[i].val,
                                       SplitOn(Tail(pointer), "/"))} :
               i \in {j \in 1..Len(schema_cache.items) :
                        named(schema_cache.items[j].key)}}

Resolved == ret # NONE /\ ret.op = "_resolve_ref"

\* the property p of the definition A of a.json
PropertyP ==
    Lookup(Lookup(Lookup(Lookup(schema_dir[1].schema, s_definitions),
                         <<"A">>), s_properties), <<"p">>)

\* enrich_row('a.p') has been called and p is a node whose $ref stands for
\* nothing
UnresolvedLookup ==
    /\ ret # NONE
    /\ ret.op = "enrich_row"
    /\ ret.arg = <<"a", ".", "p">>
    /\ HasKey(PropertyP, s_ref)
    /\ Targets(Lookup(PropertyP, s_ref).s, Lookup(schema_cache, <<"a">>)) = {}

ResolvedToNull ==
    /\ Resolved
    /\ Targets(ret.arg.ref, ret.arg.current_schema) # {}
    /\ ret.val.node = None

\* the longest chain of references the walk of C23 follows
MaxChain == 4

\* the node a chain of at most n references leads to from node, and the root
\* its internal references are to be resolved against: a reference within the
\* root keeps the root, a reference into a file makes that file's schema the
\* root of what follows
RECURSIVE Deref(_, _, _)
Deref(node, root, n) ==
    IF n = 0 \/ node.tag # "dict" \/ ~HasKey(node, s_ref) THEN Pair(node, root)
    ELSE IF \A t \in Targets(Lookup(node, s_ref).s, root) : ~Truth(t.node)
    THEN Pair(node, root)
    ELSE LET t == CHOOSE x \in Targets(Lookup(node, s_ref).s, root) : TRUE
         IN  Deref(t.node, t.root, n - 1)

\* the walk along the segments in which every reference is resolved against
\* the root the references before it have led to
RECURSIVE RootedWalk(_, _, _)
RootedWalk(node, root, segments) ==
    LET before == Deref(node, root, MaxChain)
    IN  IF before.node.tag # "dict"
           \/ ~HasKey(before.node, s_properties)
           \/ Lookup(before.node, s_properties).tag # "dict"
           \/ ~HasKey(Lookup(before.node, s_properties), segments[1])
        THEN NoMeta
        ELSE
        LET prop == Lookup(Lookup(before.node, s_properties), segments[1])
            after == Deref(prop, before.root, MaxChain)
        IN  IF Len(segments) = 1
            THEN _extract_leaf_metadata(after.node, Get(prop, s_description))
            ELSE
            LET items == IF Get(after.node, s_type) = Scalar(s_array)
                            /\ HasKey(after.node, s_items)
                         THEN Deref(Lookup(after.node, s_items), after.root,
                                    MaxChain)
                         ELSE after
            IN  RootedWalk(items.node, items.root, Tail(segments))

\* the lookup of a path of two or more non-empty segments by that walk
RootedLookup(path) ==
    LET segments == SplitOn(path, ".")
        s == segments[1]
        name == <<UpperChar(s[1])>> \o Tail(s)
    IN  IF Len(segments) = 1 \/ ~HasKey(schema_cache, s) THEN NoMeta
        ELSE IF ~HasKey(Lookup(schema_cache, s), s_definitions) THEN NoMeta
        ELSE IF ~HasKey(Lookup(Lookup(schema_cache, s), s_definitions), name)
        THEN NoMeta
        ELSE RootedWalk(
                Lookup(Lookup(Lookup(schema_cache, s), s_definitions), name),
                Lookup(schema_cache, s), Tail(segments))

\* the part of a reference before its "#"
FileOf(ref) ==
    SubSeq(ref, 1, (IF InSeq(ref, "#") THEN IndexOf(ref, "#") ELSE Len(ref) + 1) - 1)

\* the part of a reference after its "#/", split at "/"
PointerOf(ref) ==
    SplitOn(SubSeq(ref, IndexOf(ref, "#") + 2, Len(ref)), "/")

\* a reference of the form './file#/a/b' or '../dir/file#/a/b' has resolved
ResolvedExternal ==
    /\ Resolved
    /\ ret.val \notin {NoneNone, RAISED}
    /\ startswith(ret.arg.ref, <<".">>)
    /\ InSeq(ret.arg.ref, "#")
    /\ startswith(SubSeq(ret.arg.ref, IndexOf(ret.arg.ref, "#"),
                         Len(ret.arg.ref)), <<"#", "/">>)

\* C23: root switching on external references: a reference '#/a/b' is
\* resolved by navigating the current root and keeps that root; a reference
\* './file#/a/b' or '../dir/file#/a/b' looks the stem of the file up in the
\* cache, navigates the fragment in that schema and returns that schema as
\* the new root, so that every internal reference followed afterwards in the
\* same walk is resolved against the external file and not against the root
\* the walk started with.
C23_RootSwitching ==
    /\ (/\ Resolved
        /\ ret.val \notin {NoneNone, RAISED}
        /\ startswith(ret.arg.ref, <<"#", "/">>)) =>
          /\ ret.val.root = ret.arg.current_schema
          /\ ret.val.node
                \in AtPointer(ret.arg.current_schema,
                              SplitOn(SubSeq(ret.arg.ref, 3,
                                             Len(ret.arg.ref)), "/"))
    /\ ResolvedExternal =>
          /\ HasKey(schema_cache, stem(FileOf(ret.arg.ref)))
          /\ ret.val.root = Lookup(schema_cache, stem(FileOf(ret.arg.ref)))
          /\ ret.val.node \in AtPointer(ret.val.root, PointerOf(ret.arg.ref))
    /\ ReturnedLookup => ret.val = RootedLookup(ret.arg)

\* C23 witness: a.p refers to the definition X of b.json, X refers to
\* '#/definitions/R', both files define R, and the lookup of a.p has returned
\* the description of the R of b.json.
C23_Witness ==
    /\ ReturnedLookup
    /\ ret.arg = <<"a", ".", "p">>
    /\ schema_dir \in RootDirs
    /\ Get(PropertyP, s_ref)
          = Scalar(<<".", "/">> \o b_json \o hash_definitions \o <<"X">>)
    /\ Get(Lookup(Lookup(Lookup(schema_cache, <<"a">>), s_definitions),
                  <<"R">>), s_description) = Scalar(<<"R", "a">>)
    /\ ret.val.description = Scalar(<<"R", "b">>)

(***************************************************************************)
(* The metadata of a terminal node (specification SpecLeaf)                *)
(***************************************************************************)

\* a key the node does not have
Absent == [tag |-> "absent"]

\* the item of a key, if the node has it
Opt(k, v) == IF v = Absent THEN <<>> ELSE <<Item(k, v)>>

\* an alternative {"const": c, "description": d}
Alternative(c, d) ==
    Dict(<<Item(s_const, Scalar(c)), Item(s_description, Scalar(d))>>)

\* an alternative without a const
TypeOnly == Dict(<<Item(s_type, Scalar(<<"t">>))>>)

\* the anyOf and oneOf of a node: neither, one of them, both, and lists whose
\* first alternative or whose anyOf holds no const
Alternatives == {
    <<>>,
    <<Item(s_anyOf, List(<<Alternative(<<"A">>, <<"d", "A">>)>>))>>,
    <<Item(s_oneOf, List(<<TypeOnly, Alternative(<<"O">>, <<"d", "O">>),
                           Alternative(<<"P">>, <<"d", "P">>)>>))>>,
    <<Item(s_oneOf, List(<<Alternative(<<"O">>, <<"d", "O">>)>>)),
      Item(s_anyOf, List(<<Alternative(<<"A">>, <<"d", "A">>)>>))>>,
    <<Item(s_anyOf, List(<<TypeOnly>>)),
      Item(s_oneOf, List(<<Alternative(<<"O">>, <<"d", "O">>)>>))>> }

\* terminal nodes: every combination of examples, example, const and enum,
\* absent, empty, null or with a value, with the alternatives
LeafNodes ==
    {Dict(Opt(s_examples, a) \o Opt(s_example, b) \o Opt(s_const, c)
          \o Opt(s_enum, d) \o alt) :
        a \in {Absent, List(<<>>), List(<<None>>),
               List(<<Scalar(<<"e", "1">>), Scalar(<<"e", "2">>)>>)},
        b \in {Absent, None, Scalar(<<"x">>)},
        c \in {Absent, None, Scalar(<<"c">>)},
        d \in {Absent, List(<<>>), List(<<Scalar(<<"n", "1">>),
                                          Scalar(<<"n", "2">>)>>)},
        alt \in Alternatives}

\* a terminal node has been reached
InitLeaf ==
    /\ pc = "leaf"
    /\ data \in LeafNodes
    /\ rows = <<>>
    /\ out = NONE
    /\ hrows = <<>>
    /\ hout = NONE
    /\ NoEnricher

\* self._extract_leaf_metadata(current, prop_description)
ExtractLeafMetadata ==
    /\ pc = "leaf"
    /\ \E prop_description \in {None, Scalar(<<"d", "p">>)} :
          ret' = Call("_extract_leaf_metadata", data,
                      _extract_leaf_metadata(data, prop_description))
    /\ pc' = "extracted"
    /\ UNCHANGED <<data, rows, out, hrows, hout>>
    /\ UNCHANGED <<schema_dir, schema_cache, calls, path_stack_left>>

NextLeaf == ExtractLeafMetadata

SpecLeaf == InitLeaf /\ [][NextLeaf]_vars

\* the values of examples[0], example, const and enum[0] the node holds, in
\* that order
Candidates(node) ==
    LET first(k) == IF HasKey(node, k) /\ Lookup(node, k).tag = "list"
                       /\ Lookup(node, k).items # <<>>
                    THEN <<Lookup(node, k).items[1]>> ELSE <<>>
        value(k) == IF HasKey(node, k) THEN <<Lookup(node, k)>> ELSE <<>>
    IN  first(s_examples) \o value(s_example) \o value(s_const)
        \o first(s_enum)

\* the consts of the alternatives of the list under the keyword, in order
Consts(node, keyword) ==
    IF HasKey(node, keyword)
    THEN LET with == SelectSeq(Lookup(node, keyword).items,
                               LAMBDA o : HasKey(o, s_const))
         IN  [i \in 1..Len(with) |-> Lookup(with[i], s_const)]
    ELSE <<>>

\* the example is the first const found among the alternatives, and absent
\* if there is none
FromAlternatives(node, example) ==
    LET firsts == {c[1] : c \in {Consts(node, s_oneOf),
                                 Consts(node, s_anyOf)} \ {<<>>}}
    IN  IF firsts = {} THEN example = None ELSE example \in firsts

Extracted == pc = "extracted"

ATitles ==
    {Absent, Scalar(<<"A", "y">>), Scalar(<<"a">>), Scalar(<<"B">>),
     Scalar(<<>>), Scalar(<<"b", "e", "e">>)}

\* the titles of the definition B of b.json
BTitles == {Absent, Scalar(<<"A", "y">>), Scalar(<<"B", "e", "e">>)}

\* a.json: {"definitions": {"A": {"title": title, "description": "dA"},
\*   "B": DefB, ...more}}
LoadA(title, more) ==
    File(<<"a">>,
         Dict(<<Item(s_definitions,
                     Dict(<<Item(<<"A">>,
                                 Dict(Opt(s_title, title)
                                      \o <<Item(s_description,
                                                Scalar(<<"d", "A">>))>>)),
                            Item(<<"B">>, DefB)>> \o more))>>))

\* b.json: {key: {"B": {"title": title, "description": "dB2"}, "D": {}}}
LoadB(title, key) ==
    File(<<"b">>,
         Dict(<<Item(key,
                     Dict(<<Item(<<"B">>,
                                 Dict(Opt(s_title, title)
                                      \o <<Item(s_description,
                                                Scalar(<<"d", "B", "2">>))>>)),
                            Item(<<"D">>, Dict(<<>>))>>))>>))

\* c.json, without definitions: {"type": "object"}
LoadC == File(<<"c">>, Dict(<<Item(s_type, Scalar(<<"o", "b", "j">>))>>))

\* the directories, in the two orders glob may yield the files; a.json may
\* define "b", a definition that is no object and has the stem of b.json
LoadDirs ==
    UNION {{<<LoadA(ta, more), LoadB(tb, key), LoadC>>,
            <<LoadB(tb, key), LoadC, LoadA(ta, more)>>} :
             ta \in ATitles, tb \in BTitles, key \in {s_defs, s_definitions},
             more \in {<<>>, <<Item(<<"b">>, Scalar(<<"s">>))>>}}

InitLoad ==
    /\ pc = "new"
    /\ data = NONE
    /\ rows = <<>>
    /\ out = NONE
    /\ hrows = <<>>
    /\ hout = NONE
    /\ schema_dir \in LoadDirs
    /\ schema_cache = Dict(<<>>)
    /\ calls = <<>>
    /\ ret = NONE
    /\ path_stack_left = <<>>

\* enricher = SchemaEnricher(schema_dir)
Construct ==
    /\ pc = "new"
    /\ schema_cache' = _load_schemas(schema_dir)
    /\ pc' = "ready"
    /\ UNCHANGED <<data, rows, out, hrows, hout>>
    /\ UNCHANGED <<schema_dir, calls, ret, path_stack_left>>

NextLoad == Construct

SpecLoad == InitLoad /\ [][NextLoad]_vars

Constructed == pc = "ready" /\ schema_dir # <<>>

\* the top-level definitions of the i-th file, as items
TopLevelDefinitions(i) ==
    LET schema == schema_dir[i].schema
    IN  IF HasKey(schema, s_definitions)
        THEN Lookup(schema, s_definitions).items
        ELSE IF HasKey(schema, s_defs) THEN Lookup(schema, s_defs).items
        ELSE <<>>

\* the schema of the i-th file as the cache holds it: with its definitions
\* under both "definitions" and "$defs"
Held(i) == _normalize_defs(schema_dir[i].schema)

\* the keys a definition is to be reached under besides its name: its
\* title, and the title with its first letter in lower case
TitleKeys(def_value) ==
    IF def_value.tag = "dict" /\ HasKey(def_value, s_title)
       /\ Lookup(def_value, s_title).s # <<>>
    THEN LET title == Lookup(def_value, s_title).s
         IN  <<title>> \o (IF Camel(title) # title THEN <<Camel(title)>>
                           ELSE <<>>)
    ELSE <<>>

RECURSIVE KeysAfter(_)
KeysAfter(i) ==
    IF i = 0 THEN {}
    ELSE LET before == KeysAfter(i - 1)
         IN  IF schema_dir[i].stem \in before THEN before
             ELSE before \cup {schema_dir[i].stem}
                  \cup {TopLevelDefinitions(i)[j].key :
                          j \in 1..Len(TopLevelDefinitions(i))}

IsLoaded(i) == schema_dir[i].stem \notin KeysAfter(i - 1)

RECURSIVE Concat(_)
Concat(seqs) == IF seqs = <<>> THEN <<>> ELSE Head(seqs) \o Concat(Tail(seqs))

\* the registrations in their order: each loaded file under its stem,
\* followed by the wrappers of its definitions under their names; then, for
\* each loaded file and each of its definitions, the file's whole schema
\* under the title keys of the definition
Registrations ==
    LET n == Len(schema_dir)
        byName(i) ==
            IF IsLoaded(i)
            THEN <<Item(schema_dir[i].stem, Held(i))>>
                 \o [j \in 1..Len(TopLevelDefinitions(i)) |->
                       Item(TopLevelDefinitions(i)[j].key,
                            Wrapper(TopLevelDefinitions(i)[j].key,
                                    TopLevelDefinitions(i)[j].val, Held(i)))]
            ELSE <<>>
        byTitle(i) ==
            IF IsLoaded(i)
            THEN Concat([j \in 1..Len(TopLevelDefinitions(i)) |->
                    LET keys == TitleKeys(TopLevelDefinitions(i)[j].val)
                    IN  [k \in 1..Len(keys) |-> Item(keys[k], Held(i))]])
            ELSE <<>>
    IN  Concat([i \in 1..n |-> byName(i)]) \o Concat([i \in 1..n |-> byTitle(i)])

TooLong(v) ==
    \E p \in NodesOf(v, "list") : Len(At(v, p).items) > Len(ascii_lowercase)

\* C21: a list longer than the item markers can address is an error of
\* flatten: flatten of a tree that holds a list of more than 26 elements
\* raises and returns no rows, and every tree whose lists have at most 26
\* elements flattens without error.
C21_LongListRaises ==
    pc # "data" =>
        /\ TooLong(data) => pc = "raised" /\ rows = <<>>
        /\ ~TooLong(data) => pc # "raised"

\* C21 witness: flatten has raised on the list of 27 elements
C21_Witness ==
    /\ pc = "raised"
    /\ rows = <<>>
    /\ \E p \in NodesOf(data, "list") :
          Len(At(data, p).items) = Len(ascii_lowercase) + 1

(***************************************************************************)
(* Rows in any order are enriched (specification SpecStack): the rows need *)
(* not come from flatten, so a leaf may be followed by a deeper row.       *)
(***************************************************************************)

\* longest row list
MaxStackRows == 3

\* rows at the depths 1 to 3, without a key or with one of two keys, leaf or
\* nested
StackRowPool ==
    {<<number, k, value>> :
        number \in {<<"1">>, <<"1", ".", "1">>, <<"1", ".", "1", ".", "1">>},
        k \in {<<>>, ka, kp},
        value \in {NESTED, <<"v">>}}

StackRows ==
    UNION {[1..n -> StackRowPool] : n \in 0..MaxStackRows}

InitStack ==
    /\ pc = "rows"
    /\ data = NONE
    /\ rows \in StackRows
    /\ out = NONE
    /\ hrows = <<>>
    /\ hout = NONE
    /\ schema_dir = PathDir
    /\ schema_cache = _load_schemas(schema_dir)
    /\ calls = <<>>
    /\ ret = NONE
    /\ path_stack_left = <<>>

NextStack == EnrichFlattened

SpecStack == InitStack /\ [][NextStack]_vars

\* the path stack when the first i rows have been processed
RECURSIVE StackWhenDone(_)
StackWhenDone(i) ==
    IF i = 0 THEN NewPathStack
    ELSE StackAfter(StackAt(StackWhenDone(i - 1), rows[i]), rows[i])

\* a row with a non-empty key and a value other than "<nested>"
IsKeyedLeaf(row) == row[2] # <<>> /\ row[3] # NESTED

Enriched == pc = "enriched" /\ calls[1].val.tag = "returned"

\* C22: leaf rows never stay on the path stack: after a row with a non-empty
\* key and a value other than "<nested>" the stack is what it was before the
\* row's key was pushed, and the key of the leaf is in the full_path of no
\* later row, whatever its depth (rows that carry the same key themselves
\* aside).
C22_LeafLeavesStack ==
    Enriched =>
        /\ calls[1].val.path_stack = StackWhenDone(Len(rows))
        /\ \A i \in 1..Len(rows) :
              IsKeyedLeaf(rows[i]) =>
                  /\ StackWhenDone(i)
                       = PopTo(StackWhenDone(i - 1), Len(Split(rows[i][1])))
                  /\ \A j \in (i + 1)..Len(rows) :
                        (\A k \in 1..j : k # i => rows[k][2] # rows[i][2])
                        => ~InSeq(SplitOn(calls[1].val.paths[j], "."),
                                  rows[i][2])

\* C22 witness: a leaf with the key a is followed by a deeper row with the
\* key p, which is looked up under p alone.
C22_Witness ==
    /\ Enriched
    /\ Len(rows) = 2
    /\ IsKeyedLeaf(rows[1])
    /\ rows[1][2] = ka
    /\ rows[2][2] = kp
    /\ Len(Split(rows[2][1])) > Len(Split(rows[1][1]))
    /\ calls[1].val.paths[2] = kp
    /\ calls[1].val.paths[1] = ka

(***************************************************************************)
(* The description of a field (specification SpecDescr)                    *)
(***************************************************************************)

\* the description a node carries: none, null, empty, or a text
Descriptions(text) == {Absent, None, Scalar(<<>>), Scalar(text)}

\* the terminal node T: a description, an example, and alternatives, of
\* which the one with a const has a description, none, or an empty one
TerminalNodes ==
    {Dict(Opt(s_description, d) \o Opt(s_example, e) \o alt) :
        d \in Descriptions(<<"d", "t">>),
        e \in {Absent, None, Scalar(<<"x">>)},
        alt \in {<<>>,
                 <<Item(s_oneOf, List(<<TypeOnly,
                                        Alternative(<<"O">>, <<"d", "O">>)>>))>>,
                 <<Item(s_anyOf,
                        List(<<Dict(<<Item(s_const, Scalar(<<"A">>))>>)>>))>>,
                 <<Item(s_oneOf, List(<<Alternative(<<"O">>, <<>>)>>))>>}}

\* the property entry p: T itself, or a reference to T with a description
\* beside it
PropertiesTo(t) ==
    {t} \cup {Dict(<<Item(s_ref, Scalar(hash_definitions \o <<"T">>))>>
                   \o Opt(s_description, d)) :
                d \in {Absent, Scalar(<<>>), Scalar(<<"d", "p">>)}}

\* a.json: {"definitions": {"A": {"properties": {"p": p}}, "T": t}}
DescrA(p, t) ==
    File(<<"a">>,
      Dict(<<Item(s_definitions, Dict(<<
        Item(<<"A">>, Dict(<<Item(s_properties,
                                  Dict(<<Item(<<"p">>, p)>>))>>)),
        Item(<<"T">>, t)>>))>>))

DescrDirs ==
    UNION {{<<DescrA(p, t)>> : p \in PropertiesTo(t)} : t \in TerminalNodes}

\* enricher = SchemaEnricher(schema_dir)
InitDescr ==
    /\ pc = "ready"
    /\ data = NONE
    /\ rows = <<>>
    /\ out = NONE
    /\ hrows = <<>>
    /\ hout = NONE
    /\ schema_dir \in DescrDirs
    /\ schema_cache = _load_schemas(schema_dir)
    /\ calls = <<>>
    /\ ret = NONE
    /\ path_stack_left = <<>>

NextDescr == EnrichRow

SpecDescr == InitDescr /\ [][NextDescr]_vars

\* the node the property p leads to after its $ref has been followed
TerminalOfP ==
    IF HasKey(PropertyP, s_ref)
    THEN Lookup(Lookup(schema_dir[1].schema, s_definitions), <<"T">>)
    ELSE PropertyP

\* the alternatives of the node that hold a const, those of anyOf first
WithConst(node) ==
    SelectSeq((IF HasKey(node, s_anyOf) THEN Lookup(node, s_anyOf).items
               ELSE <<>>)
              \o (IF HasKey(node, s_oneOf) THEN Lookup(node, s_oneOf).items
                  ELSE <<>>),
              LAMBDA o : HasKey(o, s_const))

\* the example of the node is taken from an alternative
FromAlternative(node) ==
    /\ Candidates(node) = <<>> \/ Candidates(node)[1] = None
    /\ WithConst(node) # <<>>

\* enrich_row('a.p') has returned
LookedUpP ==
    /\ ret # NONE
    /\ ret.op = "enrich_row"
    /\ ret.arg = <<"a", ".", "p">>
    /\ ret.val \notin {HANGS, RAISED}

\* C24 as stated: the description is that of the terminal node; when the
\* node has none, that of the property entry; when neither has one and the
\* example was taken from an alternative, that of the alternative.
C24_DescriptionAsStated ==
    LookedUpP =>
        ret.val.description =
            IF Get(TerminalOfP, s_description) # None
            THEN Get(TerminalOfP, s_description)
            ELSE IF Get(PropertyP, s_description) # None
            THEN Get(PropertyP, s_description)
            ELSE IF FromAlternative(TerminalOfP)
            THEN Get(WithConst(TerminalOfP)[1], s_description)
            ELSE None

\* the node has a description that is not empty
Described(node) ==
    Get(node, s_description) \notin {None, Scalar(<<>>)}

\* C24: description selection: the description of a field is the
\* description of the terminal node reached after following $ref; when that
\* node has none or an empty one, it is the description written on the
\* property entry before ref-following; when neither has a non-empty one and
\* the example was taken from a oneOf/anyOf alternative whose description is
\* not empty, it is that alternative's description.
C24_Description ==
    LookedUpP =>
        ret.val.description =
            IF Described(TerminalOfP)
            THEN Get(TerminalOfP, s_description)
            ELSE IF Described(PropertyP)
            THEN Get(PropertyP, s_description)
            ELSE IF FromAlternative(TerminalOfP)
                    /\ Described(WithConst(TerminalOfP)[1])
            THEN Get(WithConst(TerminalOfP)[1], s_description)
            ELSE Get(PropertyP, s_description)

\* C24 witness: the terminal node has an empty description, the property
\* entry that refers to it has the description "dp", and the lookup has
\* returned "dp".
C24_Witness ==
    /\ LookedUpP
    /\ HasKey(PropertyP, s_ref)
    /\ Get(TerminalOfP, s_description) = Scalar(<<>>)
    /\ Get(PropertyP, s_description) = Scalar(<<"d", "p">>)
    /\ ret.val.description = Scalar(<<"d", "p">>)

\* the description of an alternative has been returned
DescribedByAlternative ==
    /\ LookedUpP
    /\ ~Described(TerminalOfP)
    /\ ~Described(PropertyP)
    /\ ret.val.description = Scalar(<<"d", "O">>)
    /\ ret.val.example = Scalar(<<"O">>)

(***************************************************************************)
(* SchemaResolver (src/mdstools/schema/resolver.py)                        *)
(*                                                                         *)
(* A call of _resolve_schema runs inside the calls that wait for it;       *)
(* frames counts them, itself included.  _resolve_schema and _resolve_ref  *)
(* return the pair of the value returned (or RecursionError, RAISED) and   *)
(* the largest number of frames reached.  A reference to a file is         *)
(* resolved from depth 0 whatever the depth it is met at, so that a        *)
(* reference met while it is being resolved is met again and again, until  *)
(* the interpreter's limit is reached: resolving holds the references      *)
(* being resolved.  The parameter base_path is never read by the code and  *)
(* is left out.                                                            *)
(***************************************************************************)

RecursionError == [tag |-> "RecursionError"]

ValueError == [tag |-> "ValueError"]

\* sys.getrecursionlimit()
RecursionLimit == 1000

\* `if depth > 20`
DepthCeiling == 20

Res(val, deepest) == [val |-> val, deepest |-> deepest]

Failed(val) == val \in {RecursionError, RAISED}

Max(a, b) == IF a >= b THEN a ELSE b

\* s.endswith(suffix)
endswith(s, suffix) ==
    Len(s) >= Len(suffix)
    /\ SubSeq(s, Len(s) - Len(suffix) + 1, Len(s)) = suffix

dot_yaml == <<".", "y", "a", "m", "l">>

dot_json == <<".", "j", "s", "o", "n">>

\* part.capitalize()
capitalize(part) ==
    IF part = <<>> THEN <<>> ELSE <<UpperChar(part[1])>> \o Lower(Tail(part))

\* "".join(part.capitalize() for part in name.split("_"))
RECURSIVE JoinCapitalized(_)
JoinCapitalized(parts) ==
    IF parts = <<>> THEN <<>>
    ELSE capitalize(parts[1]) \o JoinCapitalized(Tail(parts))

ResolverSnakeToPascal(name) == JoinCapitalized(SplitOn(name, "_"))

\* d.update(more) on the items of an insertion-ordered dict
RECURSIVE DictUpdate(_, _)
DictUpdate(items, more) ==
    IF more = <<>> THEN items
    ELSE DictUpdate(DictSet(items, more[1].key, more[1].val), Tail(more))

\* {"$ref": ref}
RefTo(ref) == Dict(<<Item(s_ref, Scalar(ref))>>)

\* schema_data for the file of the given stem (lines 110-132)
ResolverSchemaData(schema_stem, raw) ==
    LET main_def == ResolverSnakeToPascal(schema_stem)
        entry == Item(<<"a", "l", "l", "O", "f">>,
                      List(<<RefTo(hash_definitions \o main_def)>>))
    IN  IF HasKey(raw, s_definitions)
        THEN Dict(DictUpdate(<<Item(s_schema, Scalar(s_draft07))>>, raw.items))
        ELSE IF HasKey(raw, s_type) \/ HasKey(raw, s_properties)
        THEN Dict(<<Item(s_schema, Scalar(s_draft07)),
                    Item(s_definitions, Dict(<<Item(main_def, raw)>>)),
                    entry>>)
        ELSE Dict(<<Item(s_schema, Scalar(s_draft07)),
                    Item(s_definitions, raw)>>
                  \o (IF HasKey(raw, main_def) THEN <<entry>> ELSE <<>>))

\* SchemaResolver._load_schemas over the files of schema_pieces/, none in a
\* subdirectory: each is stored under its stem and under its relative path
RECURSIVE ResolverLoadSchemas(_, _)
ResolverLoadSchemas(files, cache) ==
    IF files = <<>> THEN Dict(cache)
    ELSE ResolverLoadSchemas(
            Tail(files),
            DictSet(DictSet(cache, files[1].stem,
                            ResolverSchemaData(files[1].stem, files[1].schema)),
                    files[1].stem \o dot_yaml,
                    ResolverSchemaData(files[1].stem, files[1].schema)))

RECURSIVE ResolverResolveSchema(_, _, _, _, _)

\* self._resolve_schema(schema, ...) of lines 209, 211 and 234, which start
\* at depth 0, for the reference ref
FromDepthZero(cache, ref, schema, frames, resolving) ==
    IF ref \in resolving THEN Res(RecursionError, RecursionLimit)
    ELSE ResolverResolveSchema(cache, schema, 0, frames + 1,
                               resolving \cup {ref})

\* lines 199-211: the fragment is looked up in ref_schema and what it leads
\* to is resolved
ResolveFragment(cache, ref, ref_schema, ref_fragment, frames, resolving) ==
    IF ref_fragment # <<>> /\ ref_fragment # <<"#">>
    THEN IF Navigate(ref_schema,
                     SplitOn(SubSeq(ref_fragment, 3, Len(ref_fragment)),
                             "/")).found
         THEN FromDepthZero(
                 cache, ref,
                 Navigate(ref_schema,
                          SplitOn(SubSeq(ref_fragment, 3, Len(ref_fragment)),
                                  "/")).node,
                 frames, resolving)
         ELSE Res(RefTo(ref), frames)
    ELSE FromDepthZero(cache, ref, ref_schema, frames, resolving)

\* lines 238-249: r is what _resolve_schema returned for ref_schema
FragmentOfResolved(ref, r, ref_fragment) ==
    IF Failed(r.val) THEN r
    ELSE IF ref_fragment # <<>>
    THEN IF Navigate(r.val, SplitOn(Tail(ref_fragment), "/")).found
         THEN Res(Navigate(r.val, SplitOn(Tail(ref_fragment), "/")).node,
                  r.deepest)
         ELSE Res(RefTo(ref), r.deepest)
    ELSE r

\* SchemaResolver._resolve_ref(ref, base_schema_path)
ResolverResolveRef(cache, ref, frames, resolving) ==
    LET ref_path == SplitOn(ref, "#")[1]
        has_fragment == InSeq(ref, "#")
        ref_file == lstrip(ref_path, {".", "/"})
    IN  IF startswith(ref, <<"h", "t", "t", "p", ":", "/", "/">>)
           \/ startswith(ref, <<"h", "t", "t", "p", "s", ":", "/", "/">>)
        THEN Res(RefTo(ref), frames)
        ELSE IF startswith(ref, <<"#", "/">>) THEN Res(RefTo(ref), frames)
        ELSE IF \/ Contains(ref, dot_yaml \o <<"#">>)
                \/ endswith(ref, dot_yaml)
                \/ Contains(ref, dot_json \o <<"#">>)
                \/ endswith(ref, dot_json)
        THEN IF HasKey(cache, stem(ref_path))
             THEN ResolveFragment(
                     cache, ref, Lookup(cache, stem(ref_path)),
                     IF has_fragment THEN <<"#">> \o SplitOn(ref, "#")[2]
                     ELSE <<>>,
                     frames, resolving)
             ELSE Res(RefTo(ref), frames)
        ELSE IF startswith(ref, <<".", "/">>)
                \/ startswith(ref, <<".", ".", "/">>)
        THEN IF HasKey(cache, ref_file) \/ HasKey(cache, stem(ref_file))
             THEN FragmentOfResolved(
                     ref,
                     FromDepthZero(
                        cache, ref,
                        IF HasKey(cache, ref_file) THEN Lookup(cache, ref_file)
                        ELSE Lookup(cache, stem(ref_file)),
                        frames, resolving),
                     IF has_fragment THEN SplitOn(ref, "#")[2] ELSE <<>>)
             ELSE Res(RefTo(ref), frames)
        ELSE Res(RefTo(ref), frames)

\* `"$ref" not in resolved or resolved["$ref"] != schema["$ref"]`
Replaced(resolved, schema) ==
    ~In(s_ref, resolved) \/ Lookup(resolved, s_ref) # Lookup(schema, s_ref)

\* the result r of a nested call, seen from a call that had reached deepest
Within(r, deepest) == Res(r.val, Max(r.deepest, deepest))

\* lines 293-299: r is what _resolve_ref returned for the pure $ref
AfterPureRef(cache, schema, r, depth, frames, resolving) ==
    IF Failed(r.val) THEN r
    ELSE IF r.val.tag = "None" THEN Res(RAISED, r.deepest)
    ELSE IF Replaced(r.val, schema)
    THEN Within(ResolverResolveSchema(cache, r.val, depth + 1, frames + 1,
                                      resolving),
                r.deepest)
    ELSE Res(schema, r.deepest)

\* resolved_ref.update(result), where result is schema without its $ref
Merged(r, schema) ==
    IF Failed(r.val) THEN r
    ELSE IF r.val.tag # "dict" THEN Res(RAISED, r.deepest)
    ELSE Res(Dict(DictUpdate(r.val.items,
                             SelectSeq(schema.items,
                                       LAMBDA it : it.key # s_ref))),
             r.deepest)

\* lines 301-315: r is what _resolve_ref returned for the $ref that stands
\* beside other keys
AfterMixedRef(cache, schema, r, depth, frames, resolving) ==
    IF Failed(r.val) THEN r
    ELSE IF r.val.tag = "None" THEN Res(RAISED, r.deepest)
    ELSE IF Replaced(r.val, schema) /\ r.val.tag = "dict"
    THEN Within(Merged(ResolverResolveSchema(cache, r.val, depth + 1,
                                              frames + 1, resolving),
                       schema),
                r.deepest)
    ELSE Res(schema, r.deepest)

\* the comprehensions of lines 317-323 from the i-th value on: done holds
\* the list of the results so far; the first failure ends the comprehension
RECURSIVE ResolveEach(_, _, _, _, _, _)

\* r is what _resolve_schema returned for values[1]
ResolvedOne(cache, values, depth, frames, resolving, done, r) ==
    IF Failed(r.val) THEN Res(r.val, Max(done.deepest, r.deepest))
    ELSE ResolveEach(cache, Tail(values), depth, frames, resolving,
                     Res(List(Append(done.val.items, r.val)),
                         Max(done.deepest, r.deepest)))

ResolveEach(cache, values, depth, frames, resolving, done) ==
    IF values = <<>> THEN done
    ELSE ResolvedOne(cache, values, depth, frames, resolving, done,
                     ResolverResolveSchema(cache, values[1], depth + 1,
                                           frames + 1, resolving))

\* {k: ... for k, v in schema.items()} from the resolved values
AsDict(schema, r) ==
    IF Failed(r.val) THEN r
    ELSE Res(Dict([i \in 1..Len(schema.items) |->
                     Item(schema.items[i].key, r.val.items[i])]),
             r.deepest)

\* SchemaResolver._resolve_schema(schema, base_path, depth)
ResolverResolveSchema(cache, schema, depth, frames, resolving) ==
    IF depth > DepthCeiling THEN Res(schema, frames)
    ELSE IF schema.tag = "dict"
    THEN IF HasKey(schema, s_ref) /\ Len(schema.items) = 1
         THEN AfterPureRef(cache, schema,
                           ResolverResolveRef(cache, Lookup(schema, s_ref).s,
                                              frames, resolving),
                           depth, frames, resolving)
         ELSE IF HasKey(schema, s_ref)
         THEN AfterMixedRef(cache, schema,
                            ResolverResolveRef(cache,
                                               Lookup(schema, s_ref).s,
                                               frames, resolving),
                            depth, frames, resolving)
         ELSE AsDict(schema,
                     ResolveEach(cache,
                                 [i \in 1..Len(schema.items) |->
                                    schema.items[i].val],
                                 depth, frames, resolving,
                                 Res(List(<<>>), frames)))
    ELSE IF schema.tag = "list"
    THEN ResolveEach(cache, schema.items, depth, frames, resolving,
                     Res(List(<<>>), frames))
    ELSE Res(schema, frames)

\* used_definitions after collect_refs(obj), less what it held before
RECURSIVE collect_refs(_)
collect_refs(obj) ==
    IF obj.tag = "dict"
    THEN (IF HasKey(obj, s_ref)
             /\ startswith(Lookup(obj, s_ref).s, hash_definitions)
          THEN {Last(SplitOn(Lookup(obj, s_ref).s, "/"))} ELSE {})
         \cup UNION {collect_refs(obj.items[i].val) : i \in 1..Len(obj.items)}
    ELSE IF obj.tag = "list"
    THEN UNION {collect_refs(obj.items[i]) : i \in 1..Len(obj.items)}
    ELSE {}

s_id == <<"$", "i", "d">>

RECURSIVE _remove_schema_ids(_)
_remove_schema_ids(schema) ==
    IF schema.tag = "dict"
    THEN LET kept == SelectSeq(schema.items, LAMBDA it : it.key # s_id)
         IN  Dict([i \in 1..Len(kept) |->
                     Item(kept[i].key, _remove_schema_ids(kept[i].val))])
    ELSE IF schema.tag = "list"
    THEN List([i \in 1..Len(schema.items) |->
                 _remove_schema_ids(schema.items[i])])
    ELSE schema

\* list(names): the names of the set in the order in which the set happens
\* to hold them, which is that of order
ListOf(names, order) == SelectSeq(order, LAMBDA n : n \in names)

\* the cached schemas that define def_name, in the order of the cache
Defining(cache, def_name) ==
    SelectSeq([i \in 1..Len(cache.items) |-> cache.items[i].val],
              LAMBDA c : /\ c.tag = "dict"
                         /\ HasKey(c, s_definitions)
                         /\ In(def_name, Lookup(c, s_definitions)))

\* the state of the loop of lines 405-441: the list definitions_to_check,
\* the sets used_definitions and checked_definitions, the dict
\* needed_definitions, and the names in the order the loop has taken them up
Worklist(definitions_to_check, used_definitions, checked_definitions,
         needed_definitions, taken, deepest) ==
    [definitions_to_check |-> definitions_to_check,
     used_definitions |-> used_definitions,
     checked_definitions |-> checked_definitions,
     needed_definitions |-> needed_definitions,
     taken |-> taken, deepest |-> deepest, failed |-> NONE]

RECURSIVE WorklistLoop(_, _, _)

\* lines 411-427: r is what _resolve_schema returned for the definition
DefinitionResolved(cache, w, def_name, r, order) ==
    IF Failed(r.val) THEN [w EXCEPT !.failed = r.val]
    ELSE WorklistLoop(
            cache,
            Worklist(Tail(w.definitions_to_check)
                       \o ListOf((w.used_definitions \cup collect_refs(r.val))
                                   \ (w.checked_definitions \cup {def_name}),
                                 order),
                     w.used_definitions \cup collect_refs(r.val),
                     w.checked_definitions \cup {def_name},
                     DictSet(w.needed_definitions, def_name,
                             _remove_schema_ids(r.val)),
                     Append(w.taken, def_name),
                     Max(w.deepest, r.deepest)),
            order)

\* lines 405-441; the branch of lines 434-441 looks the name up in a copy
\* of a cached schema, where the loop of lines 411-432 has not found it
WorklistLoop(cache, w, order) ==
    IF w.definitions_to_check = <<>> THEN w
    ELSE IF w.definitions_to_check[1] \in w.checked_definitions
    THEN WorklistLoop(cache,
                      [w EXCEPT !.definitions_to_check = Tail(@)], order)
    ELSE IF Defining(cache, w.definitions_to_check[1]) # <<>>
    THEN DefinitionResolved(
            cache, w, w.definitions_to_check[1],
            ResolverResolveSchema(
               cache,
               Lookup(Lookup(Defining(cache, w.definitions_to_check[1])[1],
                             s_definitions),
                      w.definitions_to_check[1]),
               0, 1, {}),
            order)
    ELSE WorklistLoop(
            cache,
            [w EXCEPT !.definitions_to_check = Tail(@),
                      !.checked_definitions =
                          @ \cup {w.definitions_to_check[1]},
                      !.taken = Append(@, w.definitions_to_check[1])],
            order)

\* lines 444-449: the needed definitions are added under the keys the
\* schema does not yet define
WithDefinitions(resolved_schema, needed_definitions) ==
    LET definitions == IF HasKey(resolved_schema, s_definitions)
                       THEN Lookup(resolved_schema, s_definitions).items
                       ELSE <<>>
        missing == SelectSeq(needed_definitions,
                             LAMBDA it : ~\E i \in 1..Len(definitions) :
                                            definitions[i].key = it.key)
    IN  Dict(DictSet(resolved_schema.items, s_definitions,
                     Dict(definitions \o missing)))

\* what a call of resolve_all_refs that returns leaves: the schema it
\* returns, the names its loop took up in their order, and the frames it
\* reached
ReturnedSchema(schema, taken, deepest) ==
    [tag |-> "returned", schema |-> schema, taken |-> taken,
     deepest |-> deepest]

\* lines 443-451: w is the worklist when the loop has ended
Collected(resolved_schema, w) ==
    IF w.failed # NONE THEN w.failed
    ELSE ReturnedSchema(WithDefinitions(resolved_schema, w.needed_definitions),
                        w.taken, w.deepest)

\* lines 392-441: r is what _resolve_schema returned for the schema
SchemaResolved(cache, r, order) ==
    IF Failed(r.val) THEN r.val
    ELSE Collected(
            _remove_schema_ids(r.val),
            WorklistLoop(cache,
                         Worklist(ListOf(collect_refs(r.val), order),
                                  collect_refs(r.val), {}, <<>>, <<>>,
                                  r.deepest),
                         order))

\* SchemaResolver.resolve_all_refs(schema_name)
resolve_all_refs(cache, schema_name, order) ==
    IF ~HasKey(cache, schema_name) THEN ValueError
    ELSE SchemaResolved(cache,
                        ResolverResolveSchema(cache,
                                              Lookup(cache, schema_name),
                                              0, 1, {}),
                        order)

(***************************************************************************)
(* Schemas are resolved (specification SpecResolve)                        *)
(***************************************************************************)

\* {"n": {"n": ... v}}, n levels deep
RECURSIVE Nest(_, _)
Nest(n, v) == IF n = 0 THEN v ELSE Dict(<<Item(<<"n">>, Nest(n - 1, v))>>)

\* the definition A of a.yaml: references to b.yaml, alone, beside a
\* description and by the path without suffix; references to definitions of
\* b.yaml; a URL; a file that does not exist; and a reference to b.yaml
\* below three levels of objects
ANodes == {
    \* {"$ref": "./b.yaml#/definitions/B"}
    Dict(<<Item(s_ref, Scalar(<<".", "/", "b", ".", "y", "a", "m", "l">> \o
      hash_definitions \o <<"B">>))>>),
    \* {"$ref": "./b.yaml#/definitions/B", "description": "dA"}
    Dict(<<Item(s_ref, Scalar(<<".", "/", "b", ".", "y", "a", "m", "l">> \o
      hash_definitions \o <<"B">>)), Item(s_description, Scalar(<<"d",
      "A">>))>>),
    \* {"$ref": "#/definitions/X"}
    Dict(<<Item(s_ref, Scalar(hash_definitions \o <<"X">>))>>),
    \* {"properties": {"q": {"$ref": "./b#/definitions/B"}}, "$id": "ia"}
    Dict(<<Item(s_properties, Dict(<<Item(<<"q">>, Dict(<<Item(s_ref,
      Scalar(<<".", "/", "b">> \o hash_definitions \o <<"B">>))>>))>>)),
      Item(<<"$", "i", "d">>, Scalar(<<"i", "a">>))>>),
    \* {"items": [{"$ref": "#/definitions/Y"}, {"$ref": "https://x/s.json"}]}
    Dict(<<Item(s_items, List(<<Dict(<<Item(s_ref, Scalar(hash_definitions
      \o <<"Y">>))>>), Dict(<<Item(s_ref, Scalar(<<"h", "t", "t", "p", "s",
      ":", "/", "/", "x", "/", "s", ".", "j", "s", "o", "n">>))>>)>>))>>),
    \* {"$ref": "./zz.yaml#/definitions/Z"}
    Dict(<<Item(s_ref, Scalar(<<".", "/", "z", "z", ".", "y", "a", "m",
      "l">> \o hash_definitions \o <<"Z">>))>>),
    Nest(3, Dict(<<Item(s_ref, Scalar(<<".", "/", "b", ".", "y", "a", "m", "l">> \o hash_definitions \o <<"B">>))>>)) }

\* the definition B of b.yaml: plain, a reference back to a.yaml, and
\* references to definitions of b.yaml
BNodes == {
    \* {"type": "string"}
    Dict(<<Item(s_type, Scalar(<<"s", "t", "r", "i", "n", "g">>))>>),
    \* {"$ref": "./a.yaml#/definitions/A"}
    Dict(<<Item(s_ref, Scalar(<<".", "/", "a", ".", "y", "a", "m", "l">> \o
      hash_definitions \o <<"A">>))>>),
    \* {"$ref": "#/definitions/X"}
    Dict(<<Item(s_ref, Scalar(hash_definitions \o <<"X">>))>>),
    \* {"properties": {"r": {"$ref": "#/definitions/Y"}}}
    Dict(<<Item(s_properties, Dict(<<Item(<<"r">>, Dict(<<Item(s_ref,
      Scalar(hash_definitions \o <<"Y">>))>>))>>))>>) }

\* the definition X of b.yaml: a reference to Y, a reference to itself by
\* way of the file, and a reference to itself within the file
XNodes == {
    \* {"$ref": "#/definitions/Y"}
    Dict(<<Item(s_ref, Scalar(hash_definitions \o <<"Y">>))>>),
    \* {"$ref": "./b.yaml#/definitions/X"}
    Dict(<<Item(s_ref, Scalar(<<".", "/", "b", ".", "y", "a", "m", "l">> \o
      hash_definitions \o <<"X">>))>>),
    \* {"$ref": "#/definitions/X", "type": "x"}
    Dict(<<Item(s_ref, Scalar(hash_definitions \o <<"X">>)), Item(s_type,
      Scalar(<<"x">>))>>) }

\* a.yaml: {"definitions": {"A": node, "W": {"type": "w"}}}
YamlA(node) ==
    File(<<"a">>,
      Dict(<<Item(s_definitions, Dict(<<Item(<<"A">>, node), Item(<<"W">>,
        Dict(<<Item(s_type, Scalar(<<"w">>))>>))>>))>>))

\* the definitions of b.yaml: {"B": node, "X": x, "Y": {"type": "t", "$id": "iy"}}
DefinitionsB(node, x) ==
    Dict(<<Item(<<"B">>, node), Item(<<"X">>, x), Item(<<"Y">>,
      Dict(<<Item(s_type, Scalar(<<"t">>)), Item(<<"$", "i", "d">>,
      Scalar(<<"i", "y">>))>>))>>)

\* b.yaml, with its definitions under "definitions" or at the top level
YamlB(node, x) ==
    {File(<<"b">>, Dict(<<Item(s_definitions, DefinitionsB(node, x))>>)),
     File(<<"b">>, DefinitionsB(node, x))}

\* my_thing.yaml, a schema without definitions: {"type": "object",
\*   "properties": {"p": {"$ref": "./a.yaml#/definitions/A"}}}
MyThing ==
    Dict(<<Item(s_type, Scalar(<<"o", "b", "j", "e", "c", "t">>)),
      Item(s_properties, Dict(<<Item(<<"p">>, Dict(<<Item(s_ref,
      Scalar(<<".", "/", "a", ".", "y", "a", "m", "l">> \o hash_definitions
      \o <<"A">>))>>))>>))>>)

\* the directories schema_pieces/: a.yaml and b.yaml, and one that holds
\* my_thing.yaml as well
ResolveDirs ==
    UNION {{<<YamlA(a), fb>> : fb \in YamlB(b, x)} :
             a \in ANodes, b \in BNodes, x \in XNodes}
    \cup {<<YamlA(a), File(<<"b">>, DefinitionsB(b, x)),
            File(<<"m", "y", "_", "t", "h", "i", "n", "g">>, MyThing)>> :
            a \in {v \in ANodes : HasKey(v, s_description)},
            b \in {v \in BNodes : HasKey(v, s_type)},
            x \in {v \in XNodes : ~HasKey(v, s_type)}}

\* the names handed to resolve_all_refs
SchemaNames ==
    {<<"a">>, <<"b">>, <<"m", "y", "_", "t", "h", "i", "n", "g">>,
     <<"z", "z">>}

\* the orders in which a set of names is listed: B, X and Y in every order,
\* before the other names
Orders ==
    {<<x, y, z, <<"A">>, <<"W">>, <<"Z">>, <<"M", "y", "T", "h", "i", "n", "g">>>> :
        x \in {<<"B">>, <<"X">>, <<"Y">>},
        y \in {<<"B">>, <<"X">>, <<"Y">>},
        z \in {<<"B">>, <<"X">>, <<"Y">>}}
    \ {o \in {<<x, y, z, <<"A">>, <<"W">>, <<"Z">>,
               <<"M", "y", "T", "h", "i", "n", "g">>>> :
                x \in {<<"B">>, <<"X">>, <<"Y">>},
                y \in {<<"B">>, <<"X">>, <<"Y">>},
                z \in {<<"B">>, <<"X">>, <<"Y">>}} :
          o[1] = o[2] \/ o[1] = o[3] \/ o[2] = o[3]}

\* resolver = SchemaResolver(schema_dir)
InitResolve ==
    /\ pc = "ready"
    /\ data = NONE
    /\ rows = <<>>
    /\ out = NONE
    /\ hrows = <<>>
    /\ hout = NONE
    /\ schema_dir \in ResolveDirs
    /\ schema_cache = ResolverLoadSchemas(schema_dir, <<>>)
    /\ calls = <<>>
    /\ ret = NONE
    /\ path_stack_left = <<>>

\* ret = resolver.resolve_all_refs(schema_name); the cache is read through
\* copy.deepcopy and stays as it is
ResolveAllRefs ==
    /\ pc = "ready"
    /\ \E schema_name \in SchemaNames, order \in Orders :
          ret' = Call("resolve_all_refs", schema_name,
                      resolve_all_refs(schema_cache, schema_name, order))
    /\ UNCHANGED <<pc, data, rows, out, hrows, hout>>
    /\ UNCHANGED <<schema_dir, schema_cache, calls, path_stack_left>>

\* ret = resolver._resolve_schema(schema, "", depth) for a definition of a
\* cached schema, at depth 0 and as a call at depth DepthCeiling - 1 is made,
\* that is, inside as many calls
ResolveSchema ==
    /\ pc = "ready"
    /\ \E name \in {<<"a">>, <<"b">>}, def_name \in {<<"A">>, <<"B">>, <<"X">>},
          depth \in {0, DepthCeiling - 1} :
          /\ HasKey(Lookup(Lookup(schema_cache, name), s_definitions), def_name)
          /\ ret' = Call("_resolve_schema",
                         Lookup(Lookup(Lookup(schema_cache, name),
                                       s_definitions), def_name),
                         ResolverResolveSchema(
                            schema_cache,
                            Lookup(Lookup(Lookup(schema_cache, name),
                                          s_definitions), def_name),
                            depth, depth + 1, {}))
    /\ UNCHANGED <<pc, data, rows, out, hrows, hout>>
    /\ UNCHANGED <<schema_dir, schema_cache, calls, path_stack_left>>

NextResolve == ResolveAllRefs \/ ResolveSchema

SpecResolve == InitResolve /\ [][NextResolve]_vars

\* resolve_all_refs has been called for a schema of the cache
ResolvedAll ==
    /\ ret # NONE
    /\ ret.op = "resolve_all_refs"
    /\ ret.val # ValueError

\* the frames a resolution that starts at depth 0 reaches when the depth
\* stays within the ceiling: those of the depths 0 to DepthCeiling, and the
\* one that returns at once
FramesCeiling == DepthCeiling + 2

\* C25: the depth guard of _resolve_schema prevents infinite recursion: for
\* every schema cache, also one whose files refer to each other cyclically
\* through external $ref, _resolve_schema and resolve_all_refs return, and
\* the resolutions nested in one another stay within the ceiling of 20.
C25_DepthGuard ==
    /\ ResolvedAll =>
          /\ ret.val.tag = "returned"
          /\ ret.val.deepest <= FramesCeiling
    /\ (ret # NONE /\ ret.op = "_resolve_schema") =>
          /\ ~Failed(ret.val.val)
          /\ ret.val.deepest <= FramesCeiling

\* a.yaml refers to b.yaml and b.yaml to a.yaml, and resolve_all_refs('a')
\* has ended in a RecursionError
CyclicFilesOverflow ==
    /\ ResolvedAll
    /\ ret.arg = <<"a">>
    /\ ret.val = RecursionError
    /\ Lookup(Lookup(schema_dir[1].schema, s_definitions), <<"A">>)
          = RefTo(<<".", "/", "b">> \o dot_yaml \o hash_definitions \o <<"B">>)
    /\ HasKey(schema_dir[2].schema, s_definitions)
    /\ Lookup(Lookup(schema_dir[2].schema, s_definitions), <<"B">>)
          = RefTo(<<".", "/", "a">> \o dot_yaml \o hash_definitions \o <<"A">>)

\* the guard has cut a resolution short: the reference below the ceiling is
\* returned as it is
GuardCutsShort ==
    /\ ret # NONE
    /\ ret.op = "_resolve_schema"
    /\ ~Failed(ret.val.val)
    /\ ret.val.deepest = FramesCeiling
    /\ ret.val.val = ret.arg

\* the names X of the references '#/definitions/X' in v
Referenced(v) ==
    {SubSeq(r, Len(hash_definitions) + 1, Len(r)) :
       r \in {s \in {Lookup(At(v, p), s_ref).s :
                       p \in {q \in NodesOf(v, "dict") :
                                HasKey(At(v, q), s_ref)}} :
                startswith(s, hash_definitions)}}

\* some cached schema defines the name
DefinedInCache(name) ==
    \E i \in 1..Len(schema_cache.items) :
        /\ HasKey(schema_cache.items[i].val, s_definitions)
        /\ HasKey(Lookup(schema_cache.items[i].val, s_definitions), name)

\* the returned schema is closed, and the loop took up each name once
Closed(val) ==
    /\ HasKey(val.schema, s_definitions)
    /\ \A name \in Referenced(val.schema) :
          /\ DefinedInCache(name) =>
                HasKey(Lookup(val.schema, s_definitions), name)
          /\ \E i \in 1..Len(val.taken) : val.taken[i] = name
    /\ \A i, j \in 1..Len(val.taken) : val.taken[i] = val.taken[j] => i = j

\* C26: definitions closure of resolve_all_refs: in the returned schema,
\* every name X referenced by a '#/definitions/X' reference anywhere, in the
\* body or inside an included definition, and defined in some cached schema
\* is a key of the returned 'definitions', and the worklist that collects
\* the names terminates with every reachable name processed exactly once.
C26_DefinitionsClosure ==
    ResolvedAll => ret.val.tag = "returned" /\ Closed(ret.val)

\* the calls of resolve_all_refs that return, return a closed schema
ClosedWhereReturned ==
    (ResolvedAll /\ ret.val.tag = "returned") => Closed(ret.val)

\* the first resolution of a.yaml has returned and the worklist has ended in
\* a RecursionError: A refers to '#/definitions/X', and the X of b.yaml
\* refers to itself by way of the file
WorklistOverflow ==
    /\ ResolvedAll
    /\ ret.arg = <<"a">>
    /\ ret.val = RecursionError
    /\ ~Failed(ResolverResolveSchema(schema_cache,
                                     Lookup(schema_cache, <<"a">>), 0, 1,
                                     {}).val)

\* a definition of another file has been included with the definition it
\* refers to
IncludedTransitively ==
    /\ ResolvedAll
    /\ ret.arg = <<"a">>
    /\ ret.val.tag = "returned"
    /\ ret.val.taken = << <<"X">>, <<"Y">> >>
    /\ HasKey(Lookup(ret.val.schema, s_definitions), <<"Y">>)
    /\ ~HasKey(Lookup(ret.val.schema, s_definitions), <<"B">>)

(***************************************************************************)
(* Claims about the rows of flatten as unflatten reads them (specification *)
(* Spec)                                                                   *)
(***************************************************************************)

\* C27: unflatten never mistakes data for a header: for every non-empty dict
\* v, the first row of flatten(v) is not stripped by the header detection of
\* unflatten, so the first top-level key of v is not dropped.
C27_DataIsNoHeader ==
    (Flattened /\ rows # <<>>) =>
        /\ ~IsHeaderRow(rows[1])
        /\ StripHeader(rows) = rows

\* flatten({'number': 'key'}) has been unflattened: the one row was taken for
\* a header and the result is empty
FirstFieldDropped ==
    /\ pc = "out"
    /\ data = Dict(<<Item(kw_number, Scalar(kw_key))>>)
    /\ rows = << <<Str(1), kw_number, kw_key>> >>
    /\ out = Dict(<<>>)

\* a first row with only one of the two words is kept
NestedHeaderWordsKept ==
    /\ pc = "out"
    /\ data = Dict(<<Item(kw_number, Dict(<<Item(kw_key, sx)>>))>>)
    /\ PyEq(out, data)

\* C28: addresses are unambiguous: for every tree v the address strings of
\* the rows of flatten(v) are pairwise distinct, so the index of the rows by
\* address that unflatten builds holds every row.
C28_AddressesDistinct ==
    Flattened =>
        /\ \A i, j \in 1..Len(rows) : rows[i][1] = rows[j][1] => i = j
        /\ Len(BuildTree(rows, <<>>)) = Len(rows)

\* the rows of a tree with a dict in a list: a header row of the list, one
\* of the item, and the row of a field three segments down
C28_Witness ==
    /\ pc = "rows"
    /\ Len(rows) >= 4
    /\ \E i, j \in 1..Len(rows) :
          /\ rows[i][2] = <<>> /\ rows[i][3] = NESTED
          /\ rows[j][1] = rows[i][1] \o <<".">> \o Str(1)
          /\ Len(Split(rows[j][1])) = 3

\* the row r has a header: an earlier row at the address of r less its last
\* segment, with the value "<nested>"
HasHeaderBefore(r) ==
    \E q \in 1..(r - 1) :
        /\ rows[q][1] = ParentNumber(rows[r][1])
        /\ rows[q][3] = NESTED

\* C29: header rows precede their children: in flatten(v) for a root dict
\* v, every row whose address has more than one segment is preceded by a
\* row whose address is that address less its last segment and whose value
\* is "<nested>"; no row is an orphan that unflatten would make a root.
C29_HeadersPrecede ==
    Flattened =>
        /\ \A r \in 1..Len(rows) :
              Len(Split(rows[r][1])) > 1 => HasHeaderBefore(r)
        /\ \A i \in 1..Len(Roots(BuildTree(rows, <<>>))) :
              Len(Split(Roots(BuildTree(rows, <<>>))[i])) = 1

\* no dict is the value of a field with the empty key
RECURSIVE DictsAreKeyed(_)
DictsAreKeyed(v) ==
    IF v.tag = "scalar" THEN TRUE
    ELSE IF v.tag = "dict"
    THEN \A i \in 1..Len(v.items) :
            /\ (v.items[i].val.tag = "dict" => v.items[i].key # <<>>)
            /\ DictsAreKeyed(v.items[i].val)
    ELSE \A i \in 1..Len(v.items) : DictsAreKeyed(v.items[i])

\* where every dict that is the value of a field has a non-empty key, the
\* header rows precede their children
HeadersPrecedeKeyedDicts == DictsAreKeyed(data) => C29_HeadersPrecede

\* flatten({'': {'a': 'x'}}) is the one row ['1.1', 'a', 'x'], and unflatten
\* has made it a root
OrphanRow ==
    /\ pc = "out"
    /\ data = Dict(<<Item(kEmpty, Dict(<<Item(ka, sx)>>))>>)
    /\ rows = << <<Str(1) \o <<".">> \o Str(1), ka, sx.s>> >>
    /\ out = Dict(<<Item(ka, sx)>>)

\* a row three segments down and its header, under keyed dicts
HeadersOfKeyedDicts ==
    /\ pc = "rows"
    /\ DictsAreKeyed(data)
    /\ \E r \in 1..Len(rows) :
          Len(Split(rows[r][1])) = 3 /\ HasHeaderBefore(r)

(***************************************************************************)
(* The order of the items of a list (specification SpecRows)               *)
(***************************************************************************)

\* int(s) for a string of digits
RECURSIVE int(_)
int(s) ==
    IF s = <<>> THEN 0
    ELSE 10 * int(ButLast(s)) + (IndexOf(Digits, Last(s)) - 1)

\* the n of the item marker "i<n>" that ends the number
ItemIndex(number) == int(Tail(Suffix(number)))

\* the nodes of the tree that build_structure makes a list of
ListNumbers(tree) ==
    {tree[i].number : i \in {j \in 1..Len(tree) :
        /\ ChildrenOf(tree, tree[j].number) # <<>>
        /\ \A k \in 1..Len(ChildrenOf(tree, tree[j].number)) :
              is_list_index(Suffix(ChildrenOf(tree, tree[j].number)[k]))}}

\* the children of the node, by ascending item index
ByItemIndex(children) ==
    [k \in 1..Len(children) |->
        children[CHOOSE i \in 1..Len(children) :
            Cardinality({j \in 1..Len(children) :
                ItemIndex(children[j]) < ItemIndex(children[i])}) = k - 1]]

\* the list built for the node holds what is built for its children, by
\* ascending item index
InItemOrder(tree, number) ==
    build_structure(tree, number) =
        List([k \in 1..Len(ChildrenOf(tree, number)) |->
                build_structure(tree,
                                ByItemIndex(ChildrenOf(tree, number))[k])])

\* C30: list element order: unflatten reconstructs the elements of a list in
\* ascending numeric order of their item index (i1, i2, ..., i9, i10, i11),
\* for lists of ten or more elements too, and whatever the order of the
\* rows.
C30_ItemOrder ==
    (Unflattened /\ out # RAISED) =>
        \A number \in ListNumbers(BuildTree(StripHeader(rows), <<>>)) :
            InItemOrder(BuildTree(StripHeader(rows), <<>>), number)

\* the lists of fewer than ten items come out in the order of their indexes
ItemOrderBelowTen ==
    (Unflattened /\ out # RAISED) =>
        \A number \in ListNumbers(BuildTree(StripHeader(rows), <<>>)) :
            Len(ChildrenOf(BuildTree(StripHeader(rows), <<>>), number)) < 10
                => InItemOrder(BuildTree(StripHeader(rows), <<>>), number)

\* the ten items i1 to i10 have been unflattened: i10 comes second
TenthItemSecond ==
    /\ Unflattened
    /\ rows = ItemRowsOf(10)
    /\ out = Dict(<<Item(ka, List(
                 [k \in 1..10 |->
                    Scalar(ValueOf(Str(IF k = 1 THEN 1
                                       ELSE IF k = 2 THEN 10
                                       ELSE k - 1)))]))>>)

\* nine items given in the opposite order come out in the order of their
\* indexes
NineItemsReordered ==
    /\ Unflattened
    /\ rows = Reverse(ItemRowsOf(9))
    /\ out = Dict(<<Item(ka, List([k \in 1..9 |->
                                     Scalar(ValueOf(Str(k)))]))>>)

====
